---- MODULE Spec2Model ----
(***************************************************************************)
(* datazod: derivation of SQL tables from Zod schemas (zod-sql), the       *)
(* migration engine (zod-sql/migration) and the Turso inserter (zod-turso) *)
(*                                                                         *)
(* A schema node is a record whose field k is Zod's typeName:              *)
(*   ZodString, ZodBoolean, ZodDate, ZodArray, ZodEnum      leaf types     *)
(*   ZodNumber   with int (the 'int' check)                                *)
(*   ZodObject   with shape, a sequence of [key, type] (declaration order) *)
(*   ZodOptional, ZodNullable, ZodDefault   with innerType                 *)
(* A rendered SQL fragment is a record of its parts, in rendering order.   *)
(***************************************************************************)
EXTENDS Integers, Sequences, FiniteSets, TLC

VARIABLES input, out, db, mig, log, ins

vars == <<input, out, db, mig, log, ins>>

(***************************************************************************)
(* Bounds of the model                                                     *)
(***************************************************************************)
MaxNest == 3
MaxRows == 2
MaxRuns == 2

Undefined == "undefined"

(***************************************************************************)
(* Schema constructors                                                     *)
(***************************************************************************)
ZString == [k |-> "ZodString"]
ZInt == [k |-> "ZodNumber", int |-> TRUE]
ZNumber == [k |-> "ZodNumber", int |-> FALSE]
ZBoolean == [k |-> "ZodBoolean"]
ZDate == [k |-> "ZodDate"]
ZArray == [k |-> "ZodArray"]
ZEnum == [k |-> "ZodEnum"]
ZObject(shape) == [k |-> "ZodObject", shape |-> shape]
ZOptional(t) == [k |-> "ZodOptional", innerType |-> t]
ZNullable(t) == [k |-> "ZodNullable", innerType |-> t]
ZDefault(t) == [k |-> "ZodDefault", innerType |-> t]
Field(key, type) == [key |-> key, type |-> type]

IsWrapper(t) == t.k \in {"ZodOptional", "ZodNullable", "ZodDefault"}

(* the sequence obtained by concatenating f[1], ..., f[n] *)
Concat(f, n) ==
  LET C[i \in 0..n] == IF i = 0 THEN <<>> ELSE C[i - 1] \o f[i]
  IN C[n]

Names(cols) == [i \in 1..Len(cols) |-> cols[i].name]
Range(s) == {s[i] : i \in 1..Len(s)}
Includes(s, x) == \E i \in 1..Len(s) : s[i] = x

(***************************************************************************)
(* @repo/shared                                                            *)
(***************************************************************************)
unwrapOptionalTypes(zodType) ==
  LET t1 == IF zodType.k = "ZodOptional" THEN zodType.innerType ELSE zodType
      t2 == IF t1.k = "ZodNullable" THEN t1.innerType ELSE t1
      t3 == IF t2.k = "ZodDefault" THEN t2.innerType ELSE t2
  IN [type |-> t3,
      isOptional |-> zodType.k = "ZodOptional",
      isNullable |-> t1.k = "ZodNullable"]

shouldFlattenType(zodType, maxDepth) ==
  IF maxDepth <= 0 THEN FALSE
  ELSE unwrapOptionalTypes(zodType).type.k = "ZodObject"

sharedIsInteger(zodNumber) == zodNumber.int

mapTypeToSql(type, dialect) ==
  CASE type = "integer" -> "INTEGER"
    [] type = "number" ->
         (CASE dialect = "postgres" -> "DOUBLE PRECISION"
            [] dialect = "mysql" -> "DOUBLE"
            [] OTHER -> "REAL")
    [] type = "boolean" -> "INTEGER"
    [] OTHER -> "TEXT"

(* autoId is [kind |-> "bool", value] or [kind |-> "config", enabled, name, *)
(* type]; an absent name or type is "" (falsy, like undefined).            *)
generateAutoIdConfig(autoId) ==
  IF autoId.kind = "bool"
  THEN IF ~autoId.value THEN [isNull |-> TRUE]
       ELSE [isNull |-> FALSE, enabled |-> TRUE, name |-> "id", type |-> "integer"]
  ELSE [isNull |-> FALSE,
        enabled |-> autoId.enabled,
        name |-> IF autoId.name = "" THEN "id" ELSE autoId.name,
        type |-> IF autoId.type = "" THEN "integer" ELSE autoId.type]

filterExtraColumnsByPosition(extraColumns, position) ==
  LET Keep(col) == IF position = "start" THEN col.position = "start"
                   ELSE col.position = Undefined \/ col.position = "end"
  IN SelectSeq(extraColumns, Keep)

(***************************************************************************)
(* zod-sql: extractTableStructure (schema/structure-extractor.ts)          *)
(***************************************************************************)
ColumnDefinition(name, type, notNull, defaultValue, primaryKey, unique) ==
  [name |-> name, type |-> type, notNull |-> notNull,
   defaultValue |-> defaultValue, primaryKey |-> primaryKey, unique |-> unique]

processZodTypeToColumn(name, zodType, dialect) ==
  LET u == unwrapOptionalTypes(zodType)
      type == u.type
      defaultValue == IF type.k = "ZodDefault" THEN "dv" ELSE Undefined
      sqlType ==
        IF type.k = "ZodNumber"
        THEN mapTypeToSql(IF sharedIsInteger(type) THEN "integer" ELSE "number", dialect)
        ELSE CASE type.k = "ZodString" -> "TEXT"
               [] type.k = "ZodBoolean" -> "INTEGER"
               [] type.k = "ZodDate" -> "DATETIME"
               [] type.k \in {"ZodArray", "ZodObject"} -> "TEXT"
               [] OTHER -> "TEXT"
  IN ColumnDefinition(name, sqlType, ~u.isOptional, defaultValue, FALSE, FALSE)

RECURSIVE processNestedObjectForStructure(_, _, _, _, _)
processNestedObjectForStructure(prefix, objectType, depth, dialect, originalType) ==
  IF depth <= 0
  THEN <<processZodTypeToColumn(prefix, originalType, dialect)>>
  ELSE LET shape == objectType.shape
           ColsOf(f) ==
             LET colName == prefix \o "_" \o f.key
             IN IF shouldFlattenType(f.type, depth)
                THEN processNestedObjectForStructure(
                       colName, unwrapOptionalTypes(f.type).type,
                       depth - 1, dialect, f.type)
                ELSE <<processZodTypeToColumn(colName, f.type, dialect)>>
       IN Concat([i \in 1..Len(shape) |-> ColsOf(shape[i])], Len(shape))

processZodTypeWithFlattening(name, zodType, flattenDepth, dialect) ==
  IF shouldFlattenType(zodType, flattenDepth)
  THEN processNestedObjectForStructure(
         name, unwrapOptionalTypes(zodType).type, flattenDepth, dialect, zodType)
  ELSE <<processZodTypeToColumn(name, zodType, dialect)>>

ExtraToColumn(col) ==
  ColumnDefinition(col.name, col.type, col.notNull # "false",
                   col.defaultValue, col.primaryKey, col.unique)

(* lines 107-119: every name of options.primaryKey is pushed on primaryKeys *)
(* when it is not there, and the first column of that name is marked.      *)
RECURSIVE ApplyPrimaryKey(_, _, _)
ApplyPrimaryKey(pkColumns, columns, primaryKeys) ==
  IF pkColumns = <<>> THEN [columns |-> columns, primaryKeys |-> primaryKeys]
  ELSE LET pk == Head(pkColumns)
           keys == IF Includes(primaryKeys, pk) THEN primaryKeys
                   ELSE Append(primaryKeys, pk)
           hits == {i \in 1..Len(columns) : columns[i].name = pk}
           first == CHOOSE i \in hits : \A j \in hits : i <= j
           marked == IF hits = {} THEN columns
                     ELSE [columns EXCEPT ![first].primaryKey = TRUE]
       IN ApplyPrimaryKey(Tail(pkColumns), marked, keys)

extractTableStructure(schema, options) ==
  LET autoIdConfig == generateAutoIdConfig(options.autoId)
      idCols ==
        IF autoIdConfig.isNull THEN <<>>
        ELSE <<ColumnDefinition(autoIdConfig.name,
                 IF autoIdConfig.type = "uuid" THEN "TEXT" ELSE "INTEGER",
                 TRUE, Undefined, TRUE, TRUE)>>
      tsCols ==
        IF options.timestamps
        THEN <<ColumnDefinition("created_at", "DATETIME", TRUE, "CURRENT_TIMESTAMP", FALSE, FALSE),
               ColumnDefinition("updated_at", "DATETIME", TRUE, "CURRENT_TIMESTAMP", FALSE, FALSE)>>
        ELSE <<>>
      startColumns == filterExtraColumnsByPosition(options.extraColumns, "start")
      endColumns == filterExtraColumnsByPosition(options.extraColumns, "end")
      shape == schema.shape
      schemaCols ==
        Concat([i \in 1..Len(shape) |->
                  processZodTypeWithFlattening(shape[i].key, shape[i].type,
                                               options.flattenDepth, options.dialect)],
               Len(shape))
      columns == idCols \o tsCols
                 \o [i \in 1..Len(startColumns) |-> ExtraToColumn(startColumns[i])]
                 \o schemaCols
                 \o [i \in 1..Len(endColumns) |-> ExtraToColumn(endColumns[i])]
      IsPk(col) == col.primaryKey
      extraPks == Names(SelectSeq(startColumns, IsPk)) \o Names(SelectSeq(endColumns, IsPk))
      primaryKeys == (IF autoIdConfig.isNull THEN <<>> ELSE <<autoIdConfig.name>>) \o extraPks
      pk == options.primaryKey
  IN IF pk.kind = "none"
     THEN [columns |-> columns, primaryKeys |-> primaryKeys]
     ELSE ApplyPrimaryKey(pk.names, columns, primaryKeys)

(***************************************************************************)
(* zod-sql: createTableDDL (zod-sql/index.ts)                              *)
(* A column definition of the statement is the record of its rendered      *)
(* parts: "name" type [NOT NULL] [DEFAULT d] [UNIQUE] [PRIMARY KEY] suffix.*)
(***************************************************************************)
RECURSIVE mapZodToSQLite(_)
mapZodToSQLite(zodType) ==
  IF zodType.k \in {"ZodNullable", "ZodOptional"} THEN mapZodToSQLite(zodType.innerType)
  ELSE CASE zodType.k = "ZodString" -> "TEXT"
         [] zodType.k = "ZodNumber" -> (IF zodType.int THEN "INTEGER" ELSE "REAL")
         [] zodType.k = "ZodBoolean" -> "BOOLEAN"
         [] zodType.k = "ZodArray" -> "TEXT"
         [] zodType.k = "ZodObject" -> "TEXT"
         [] zodType.k = "ZodEnum" -> "TEXT"
         [] zodType.k = "ZodDate" -> "TEXT"
         [] OTHER -> "TEXT"

RECURSIVE mapZodToPostgres(_)
mapZodToPostgres(zodType) ==
  IF zodType.k \in {"ZodNullable", "ZodOptional"} THEN mapZodToPostgres(zodType.innerType)
  ELSE CASE zodType.k = "ZodString" -> "TEXT"
         [] zodType.k = "ZodNumber" -> (IF zodType.int THEN "INTEGER" ELSE "DOUBLE PRECISION")
         [] zodType.k = "ZodBoolean" -> "BOOLEAN"
         [] zodType.k = "ZodArray" -> "JSONB"
         [] zodType.k = "ZodObject" -> "JSONB"
         [] zodType.k = "ZodEnum" -> "TEXT"
         [] zodType.k = "ZodDate" -> "TIMESTAMP WITH TIME ZONE"
         [] OTHER -> "TEXT"

RECURSIVE mapZodToMySQL(_)
mapZodToMySQL(zodType) ==
  IF zodType.k \in {"ZodNullable", "ZodOptional"} THEN mapZodToMySQL(zodType.innerType)
  ELSE CASE zodType.k = "ZodString" -> "TEXT"
         [] zodType.k = "ZodNumber" -> (IF zodType.int THEN "INT" ELSE "DOUBLE")
         [] zodType.k = "ZodBoolean" -> "BOOLEAN"
         [] zodType.k = "ZodArray" -> "JSON"
         [] zodType.k = "ZodObject" -> "JSON"
         [] zodType.k = "ZodEnum" -> "TEXT"
         [] zodType.k = "ZodDate" -> "DATETIME"
         [] OTHER -> "TEXT"

mapZodToSql(zodType, dialect) ==
  CASE dialect = "postgres" -> mapZodToPostgres(zodType)
    [] dialect = "mysql" -> mapZodToMySQL(zodType)
    [] OTHER -> mapZodToSQLite(zodType)

(* Zod's isOptional() and isNullable(): whether the type parses undefined,  *)
(* respectively null. A ZodDefault replaces undefined by its default.      *)
RECURSIVE AcceptsUndefined(_)
AcceptsUndefined(zodType) ==
  CASE zodType.k = "ZodOptional" -> TRUE
    [] zodType.k = "ZodDefault" -> TRUE
    [] zodType.k = "ZodNullable" -> AcceptsUndefined(zodType.innerType)
    [] OTHER -> FALSE

RECURSIVE AcceptsNull(_)
AcceptsNull(zodType) ==
  CASE zodType.k = "ZodNullable" -> TRUE
    [] zodType.k \in {"ZodOptional", "ZodDefault"} -> AcceptsNull(zodType.innerType)
    [] OTHER -> FALSE

isNullable(zodType) == AcceptsUndefined(zodType) \/ AcceptsNull(zodType)

isInteger(zodType) == zodType.k = "ZodNumber" /\ zodType.int

(* the quote character, by name *)
getQuoteChar(dialect) == IF dialect = "mysql" THEN "backtick" ELSE "doublequote"

DDLColumn(name, type, notNull, defaultValue, unique, primaryKey, suffix) ==
  [name |-> name, type |-> type, notNull |-> notNull, defaultValue |-> defaultValue,
   unique |-> unique, primaryKey |-> primaryKey, suffix |-> suffix]

getTimestampColumns(dialect) ==
  CASE dialect = "postgres" ->
         <<DDLColumn("created_at", "TIMESTAMP WITH TIME ZONE", TRUE, "NOW()", FALSE, FALSE, ""),
           DDLColumn("updated_at", "TIMESTAMP WITH TIME ZONE", TRUE, "NOW()", FALSE, FALSE, "")>>
    [] dialect = "mysql" ->
         <<DDLColumn("created_at", "TIMESTAMP", TRUE, "CURRENT_TIMESTAMP", FALSE, FALSE, ""),
           DDLColumn("updated_at", "TIMESTAMP", TRUE, "CURRENT_TIMESTAMP", FALSE, FALSE,
                     "ON UPDATE CURRENT_TIMESTAMP")>>
    [] OTHER ->
         <<DDLColumn("created_at", "TEXT", TRUE, "(datetime('now'))", FALSE, FALSE, ""),
           DDLColumn("updated_at", "TEXT", TRUE, "(datetime('now'))", FALSE, FALSE, "")>>

(* the rendered auto ID column, or the empty sequence for the '' result *)
getAutoIdColumn(dialect, config) ==
  LET actualConfig ==
        IF config.kind = "bool"
        THEN [enabled |-> config.value, name |-> "id", type |-> "integer"]
        ELSE [enabled |-> config.enabled, name |-> config.name, type |-> config.type]
      idName == IF actualConfig.name = "" THEN "id" ELSE actualConfig.name
      uuid == actualConfig.type = "uuid"
  IN IF ~actualConfig.enabled THEN <<>>
     ELSE CASE dialect = "postgres" ->
                 IF uuid THEN <<DDLColumn(idName, "UUID", FALSE, "gen_random_uuid()", FALSE, TRUE, "")>>
                 ELSE <<DDLColumn(idName, "SERIAL", FALSE, Undefined, FALSE, TRUE, "")>>
            [] dialect = "mysql" ->
                 IF uuid THEN <<DDLColumn(idName, "CHAR(36)", FALSE, "(UUID())", FALSE, TRUE, "")>>
                 ELSE <<DDLColumn(idName, "INT", FALSE, Undefined, FALSE, TRUE, "AUTO_INCREMENT")>>
            [] OTHER ->
                 IF uuid THEN <<DDLColumn(idName, "TEXT", FALSE, "(uuid())", FALSE, TRUE, "")>>
                 ELSE <<DDLColumn(idName, "INTEGER", FALSE, Undefined, FALSE, TRUE, "AUTOINCREMENT")>>

buildColumnDefinition(column, dialect) ==
  DDLColumn(column.name, column.type, column.notNull = "true",
            column.defaultValue, column.unique, column.primaryKey, "")

NumberSqlType(isInt, dialect) ==
  CASE dialect = "postgres" -> (IF isInt THEN "INTEGER" ELSE "DOUBLE PRECISION")
    [] dialect = "mysql" -> (IF isInt THEN "INT" ELSE "DOUBLE")
    [] OTHER -> (IF isInt THEN "INTEGER" ELSE "REAL")

(* lines 396-402 and 511-517: one Optional or Nullable layer is removed *)
UnwrapOnce(type) ==
  IF type.k \in {"ZodNullable", "ZodOptional"} THEN type.innerType ELSE type

(* processNestedObject with the recursion guard depth > 1 of the earlier *)
(* version: the last permitted level is stored as JSON one level early   *)
RECURSIVE processNestedObject_DepthGtOne(_, _, _, _)
processNestedObject_DepthGtOne(prefix, objectType, depth, dialect) ==
  IF depth <= 1
  THEN <<DDLColumn(prefix, mapZodToSql(objectType, dialect), ~isNullable(objectType),
                   Undefined, FALSE, FALSE, "")>>
  ELSE LET shape == objectType.shape
           ColsOf(f) ==
             LET colName == prefix \o "_" \o f.key
                 unwrappedType == UnwrapOnce(f.type)
             IN IF unwrappedType.k = "ZodObject"
                THEN processNestedObject_DepthGtOne(colName, unwrappedType, depth - 1, dialect)
                ELSE <<DDLColumn(colName, mapZodToSql(unwrappedType, dialect),
                                 ~isNullable(f.type), Undefined, FALSE, FALSE, "")>>
       IN Concat([i \in 1..Len(shape) |-> ColsOf(shape[i])], Len(shape))

RECURSIVE processNestedObject(_, _, _, _)
processNestedObject(prefix, objectType, depth, dialect) ==
  IF depth <= 0
  THEN <<DDLColumn(prefix, mapZodToSql(objectType, dialect), ~isNullable(objectType),
                   Undefined, FALSE, FALSE, "")>>
  ELSE LET shape == objectType.shape
           ColsOf(f) ==
             LET colName == prefix \o "_" \o f.key
                 unwrappedType == UnwrapOnce(f.type)
             IN IF unwrappedType.k = "ZodObject" /\ depth > 0
                THEN processNestedObject(colName, unwrappedType, depth - 1, dialect)
                ELSE IF unwrappedType.k = "ZodNumber"
                THEN <<DDLColumn(colName, NumberSqlType(isInteger(unwrappedType), dialect),
                                 ~isNullable(f.type), Undefined, FALSE, FALSE, "")>>
                ELSE <<DDLColumn(colName, mapZodToSql(unwrappedType, dialect),
                                 ~isNullable(f.type), Undefined, FALSE, FALSE, "")>>
       IN Concat([i \in 1..Len(shape) |-> ColsOf(shape[i])], Len(shape))

createTableDDL(schema, options) ==
  LET dialect == options.dialect
      primaryKey == options.primaryKey
      autoId == options.autoId
      extraColumns == options.extraColumns
      flattenDepth == options.flattenDepth
      shape == schema.shape
      autoIdTruthy == autoId.kind = "config" \/ autoId.value
      idCols == IF autoIdTruthy THEN getAutoIdColumn(dialect, autoId) ELSE <<>>
      tsCols == IF options.timestamps THEN getTimestampColumns(dialect) ELSE <<>>
      IsStart(c) == c.position = "start"
      IsEnd(c) == c.position = Undefined \/ c.position = "end"
      starts == SelectSeq(extraColumns, IsStart)
      ends == SelectSeq(extraColumns, IsEnd)
      startCols == idCols \o tsCols
                   \o [i \in 1..Len(starts) |-> buildColumnDefinition(starts[i], dialect)]
      ColsOf(f) ==
        LET unwrappedType == UnwrapOnce(f.type)
            isPrimaryKey == primaryKey.kind = "single" /\ primaryKey.names[1] = f.key
        IN IF unwrappedType.k = "ZodObject" /\ flattenDepth > 0
           THEN processNestedObject(f.key, unwrappedType, flattenDepth, dialect)
           ELSE IF unwrappedType.k = "ZodNumber"
           THEN <<DDLColumn(f.key, NumberSqlType(isInteger(unwrappedType), dialect),
                            ~isNullable(f.type), Undefined, FALSE, isPrimaryKey, "")>>
           ELSE <<DDLColumn(f.key, mapZodToSql(unwrappedType, dialect),
                            ~isNullable(f.type), Undefined, FALSE, isPrimaryKey, "")>>
      mainCols == Concat([i \in 1..Len(shape) |-> ColsOf(shape[i])], Len(shape))
      endCols == [i \in 1..Len(ends) |-> buildColumnDefinition(ends[i], dialect)]
      hasPrimaryKeyColumn ==
        \/ \E i \in 1..Len(extraColumns) : extraColumns[i].primaryKey
        \/ primaryKey.kind = "single"
        \/ autoIdTruthy
      constraints ==
        IF primaryKey.kind = "list" /\ ~hasPrimaryKeyColumn
        THEN <<primaryKey.names>> ELSE <<>>
  IN [ifNotExists |-> TRUE,
      quote |-> getQuoteChar(dialect),
      cols |-> startCols \o mainCols \o endCols,
      constraints |-> constraints]

(***************************************************************************)
(* Inputs of the derivation: schemas and options                           *)
(***************************************************************************)
Dialects == {"sqlite", "postgres", "mysql"}

NoPrimaryKey == [kind |-> "none", names |-> <<>>]
SinglePrimaryKey(n) == [kind |-> "single", names |-> <<n>>]
ListPrimaryKey(ns) == [kind |-> "list", names |-> ns]

AutoIdBool(b) == [kind |-> "bool", value |-> b]
AutoIdConfig(enabled, name, type) ==
  [kind |-> "config", enabled |-> enabled, name |-> name, type |-> type]

ExtraColumn(name, type, notNull, defaultValue, primaryKey, position) ==
  [name |-> name, type |-> type, notNull |-> notNull, defaultValue |-> defaultValue,
   primaryKey |-> primaryKey, unique |-> FALSE, position |-> position]

Options(dialect, primaryKey, extraColumns, timestamps, autoId, flattenDepth) ==
  [dialect |-> dialect, primaryKey |-> primaryKey, extraColumns |-> extraColumns,
   timestamps |-> timestamps, autoId |-> autoId, flattenDepth |-> flattenDepth]

Leaves == {ZString, ZInt, ZNumber, ZBoolean, ZDate, ZArray, ZEnum}

(* wrapper stacks, outermost first: z.x().nullable().optional() is <<o, n>> *)
WrapperStacks ==
  {<<>>, <<"o">>, <<"n">>, <<"d">>, <<"o", "n">>, <<"n", "o">>, <<"o", "d">>, <<"d", "o">>,
   <<"n", "d">>, <<"d", "n">>}

RECURSIVE Wrap(_, _)
Wrap(stack, t) ==
  IF stack = <<>> THEN t
  ELSE LET inner == Wrap(Tail(stack), t)
       IN CASE Head(stack) = "o" -> ZOptional(inner)
            [] Head(stack) = "n" -> ZNullable(inner)
            [] OTHER -> ZDefault(inner)

(* an object nested d levels deep whose inner objects all carry the stack w: *)
(* {v: string, o: w({v: string, o: w(... {v: string})})}                   *)
RECURSIVE Nested(_, _)
Nested(d, w) ==
  IF d <= 1 THEN ZObject(<<Field("v", ZString)>>)
  ELSE ZObject(<<Field("v", ZString), Field("o", Wrap(w, Nested(d - 1, w))), Field("n", ZInt)>>)

ObjectStacks == {<<>>, <<"o">>, <<"n">>, <<"d">>, <<"o", "n">>, <<"n", "o">>}

DefaultOptions(dialect, flattenDepth) ==
  Options(dialect, NoPrimaryKey, <<>>, FALSE, AutoIdBool(FALSE), flattenDepth)

TypeInputs ==
  {[schema |-> ZObject(<<Field("f", Wrap(w, t))>>), options |-> DefaultOptions(d, 2)] :
     <<w, t, d>> \in WrapperStacks \X Leaves \X Dialects}

FlattenInputs ==
  {[schema |-> ZObject(<<Field("id", ZString), Field("p", Wrap(w, Nested(n, w))), Field("z", ZBoolean)>>),
    options |-> DefaultOptions(d, fd)] :
     <<w, n, d, fd>> \in ObjectStacks \X (1..MaxNest) \X Dialects \X (0..(MaxNest + 1))}

AutoIds ==
  {AutoIdBool(FALSE), AutoIdBool(TRUE), AutoIdConfig(TRUE, "", "uuid"),
   AutoIdConfig(TRUE, "uid", "integer"), AutoIdConfig(FALSE, "", "integer")}

ExtraLists ==
  LET s1 == ExtraColumn("tenant", "TEXT", "true", Undefined, FALSE, "start")
      s2 == ExtraColumn("kind", "TEXT", "undefined", "'x'", FALSE, "start")
      e1 == ExtraColumn("ref", "INTEGER", "false", Undefined, FALSE, "end")
      u1 == ExtraColumn("note", "TEXT", "undefined", Undefined, FALSE, Undefined)
      k1 == ExtraColumn("key", "TEXT", "true", Undefined, TRUE, "start")
  IN {<<>>, <<s1>>, <<e1, s1>>, <<u1, s2, e1, s1>>, <<k1>>, <<e1, u1>>}

PrimaryKeys ==
  {NoPrimaryKey, SinglePrimaryKey("a"), SinglePrimaryKey("missing"),
   SinglePrimaryKey("key"), ListPrimaryKey(<<"a", "p_b">>), ListPrimaryKey(<<"key">>)}

AssemblySchemas ==
  {ZObject(<<Field("a", ZString), Field("p", ZObject(<<Field("b", ZInt)>>))>>),
   ZObject(<<Field("id", ZString), Field("p_b", ZOptional(ZString)),
             Field("p", ZObject(<<Field("b", ZInt)>>))>>)}

AssemblyInputs ==
  {[schema |-> s, options |-> Options(d, pk, ex, ts, ai, 2)] :
     <<s, d, pk, ex, ts, ai>> \in
       AssemblySchemas \X Dialects \X PrimaryKeys \X ExtraLists \X BOOLEAN \X AutoIds}

(* {n: integer, f: number, s: string, b: boolean, arr: array of string} *)
TypeTableSchema ==
  ZObject(<<Field("n", ZInt), Field("f", ZNumber), Field("s", ZString),
            Field("b", ZBoolean), Field("arr", ZArray)>>)

TypeTableInputs ==
  {[schema |-> TypeTableSchema, options |-> DefaultOptions(d, 2)] : d \in Dialects}

(* a dialect outside Dialects, as an untyped caller can pass it *)
UnknownDialectInputs ==
  {[schema |-> ZObject(<<Field("s", ZString), Field("f", ZNumber), Field("arr", ZArray)>>),
    options |-> Options("oracle", NoPrimaryKey, <<>>, ts, ai, 2)] :
     <<ts, ai>> \in BOOLEAN \X {AutoIdBool(FALSE), AutoIdBool(TRUE)}}

Inputs ==
  TypeInputs \cup FlattenInputs \cup AssemblyInputs \cup TypeTableInputs
  \cup UnknownDialectInputs

(***************************************************************************)
(* State                                                                   *)
(***************************************************************************)
NoStructure == [columns |-> <<>>, primaryKeys |-> <<>>]
NoDDL == [ifNotExists |-> TRUE, quote |-> "", cols |-> <<>>, constraints |-> <<>>]
NoOut == [hasStructure |-> FALSE, structure |-> NoStructure,
          hasDDL |-> FALSE, ddl |-> NoDDL,
          hasFlat |-> FALSE, flat |-> <<>>]
Idle == [pc |-> "idle"]

(***************************************************************************)
(* Derivation: the pure functions applied to an input                      *)
(***************************************************************************)
InitDerive ==
  /\ input \in Inputs
  /\ out = NoOut
  /\ db = Idle /\ mig = Idle /\ log = <<>> /\ ins = Idle

DeriveStructure ==
  /\ ~out.hasStructure
  /\ out' = [out EXCEPT !.hasStructure = TRUE,
                        !.structure = extractTableStructure(input.schema, input.options)]
  /\ UNCHANGED <<input, db, mig, log, ins>>

GenerateDDL ==
  /\ ~out.hasDDL
  /\ out' = [out EXCEPT !.hasDDL = TRUE,
                        !.ddl = createTableDDL(input.schema, input.options)]
  /\ UNCHANGED <<input, db, mig, log, ins>>

NextDerive == DeriveStructure \/ GenerateDDL

Spec == InitDerive /\ [][NextDerive]_vars

(***************************************************************************)
(* The database behind client.execute: one table. A column has a name, a   *)
(* NOT NULL flag, a default expression and a rowid flag (INTEGER PRIMARY   *)
(* KEY); a row is the sequence of its values, aligned with the columns.    *)
(* A value is Null, Text(characters) or Num(n).                            *)
(***************************************************************************)
Null == [t |-> "null"]
Text(chars) == [t |-> "text", v |-> chars]
Num(n) == [t |-> "number", v |-> n]
JsUndefined == [t |-> "undefined"]

NoTable == [exists |-> FALSE, cols |-> <<>>, rows |-> <<>>]
TableColumn(name, notNull, dflt, rowid) ==
  [name |-> name, notNull |-> notNull, dflt |-> dflt, rowid |-> rowid]

(* the value a column takes when an INSERT names no value for it *)
ImplicitValue(col) ==
  IF col.dflt # Undefined THEN Text(<<col.dflt>>)
  ELSE IF col.rowid THEN Text(<<"rowid">>)
  ELSE Null

HasDuplicates(s) == \E i, j \in 1..Len(s) : i < j /\ s[i] = s[j]

(* a string literal of a statement: the text between the quotes *)
RECURSIVE Unescape(_)
Unescape(chars) ==
  IF chars = <<>> THEN [ok |-> TRUE, chars |-> <<>>]
  ELSE IF Head(chars) # "'"
       THEN LET r == Unescape(Tail(chars))
            IN [ok |-> r.ok, chars |-> <<Head(chars)>> \o r.chars]
  ELSE IF Len(chars) >= 2 /\ chars[2] = "'"
       THEN LET r == Unescape(Tail(Tail(chars)))
            IN [ok |-> r.ok, chars |-> <<"'">> \o r.chars]
  ELSE [ok |-> FALSE, chars |-> <<>>]

LiteralOk(lit) == lit.lit = "raw" \/ Unescape(lit.chars).ok
LiteralValue(lit) == IF lit.lit = "raw" THEN lit.v ELSE Text(Unescape(lit.chars).chars)

(* PRAGMA table_info(t): the column names, no rows for a missing table *)
ExecPragma(dbv) == IF dbv.exists THEN Names(dbv.cols) ELSE <<>>

(* a NOT NULL column cannot be added without a default *)
ExecAlterOk(dbv, stmt) ==
  /\ dbv.exists
  /\ ~Includes(Names(dbv.cols), stmt.name)
  /\ ~(stmt.def.notNull /\ stmt.def.defaultValue = Undefined)
ExecAlter(dbv, stmt) ==
  LET col == TableColumn(stmt.name, stmt.def.notNull, stmt.def.defaultValue, FALSE)
  IN [dbv EXCEPT !.cols = Append(@, col),
                 !.rows = [r \in 1..Len(@) |-> Append(@[r], ImplicitValue(col))]]

ExecSelectOk(dbv, stmt) ==
  dbv.exists /\ \A i \in 1..Len(stmt.cols) : Includes(Names(dbv.cols), stmt.cols[i])
(* the rows as objects: functions from the selected column names *)
ExecSelect(dbv, stmt) ==
  LET idx(c) == CHOOSE i \in 1..Len(dbv.cols) : dbv.cols[i].name = c
  IN [r \in 1..Len(dbv.rows) |-> [c \in Range(stmt.cols) |-> dbv.rows[r][idx(c)]]]

ExecDropOk(dbv) == dbv.exists
ExecDrop(dbv) == NoTable

(* CREATE TABLE IF NOT EXISTS: duplicate column names, a second primary    *)
(* key or a key over an unknown column are rejected                        *)
ExecCreateOk(dbv, stmt) ==
  \/ dbv.exists
  \/ /\ ~HasDuplicates(Names(stmt.ddl.cols))
     /\ Cardinality({i \in 1..Len(stmt.ddl.cols) : stmt.ddl.cols[i].primaryKey})
          + Len(stmt.ddl.constraints) <= 1
     /\ \A k \in 1..Len(stmt.ddl.constraints) :
          \A n \in 1..Len(stmt.ddl.constraints[k]) :
            Includes(Names(stmt.ddl.cols), stmt.ddl.constraints[k][n])
ExecCreate(dbv, stmt) ==
  IF dbv.exists THEN dbv
  ELSE [exists |-> TRUE,
        cols |-> [i \in 1..Len(stmt.ddl.cols) |->
                    LET c == stmt.ddl.cols[i]
                    IN TableColumn(c.name, c.notNull, c.defaultValue,
                                   c.primaryKey /\ c.type \in {"INTEGER", "SERIAL", "INT"})],
        rows |-> <<>>]

InsertedRow(dbv, stmt) ==
  [i \in 1..Len(dbv.cols) |->
     LET hits == {k \in 1..Len(stmt.cols) : stmt.cols[k] = dbv.cols[i].name}
     IN IF hits = {} THEN ImplicitValue(dbv.cols[i])
        ELSE LiteralValue(stmt.values[CHOOSE k \in hits : TRUE])]

ExecInsertOk(dbv, stmt) ==
  /\ dbv.exists
  /\ \A k \in 1..Len(stmt.cols) : Includes(Names(dbv.cols), stmt.cols[k])
  /\ ~HasDuplicates(stmt.cols)
  /\ \A k \in 1..Len(stmt.values) : LiteralOk(stmt.values[k])
  /\ \A i \in 1..Len(dbv.cols) : dbv.cols[i].notNull => InsertedRow(dbv, stmt)[i] # Null
ExecInsert(dbv, stmt) == [dbv EXCEPT !.rows = Append(@, InsertedRow(dbv, stmt))]

(***************************************************************************)
(* zod-sql migration (maps/sqlite/index.ts, lines 61-298)                  *)
(***************************************************************************)
PragmaStmt == [op |-> "PRAGMA"]
AlterStmt(name, def) == [op |-> "ALTER", name |-> name, def |-> def]
SelectStmt(cols) == [op |-> "SELECT", cols |-> cols]
DropStmt == [op |-> "DROP"]
CreateStmt(ddl) == [op |-> "CREATE", ddl |-> ddl]
InsertStmt(cols, values) == [op |-> "INSERT", cols |-> cols, values |-> values]

(* the introspection: the statement failed, or its rows *)
getTableColumns(dbv, failed) == IF failed THEN <<>> ELSE ExecPragma(dbv)

(* a column definition that carries the schema's NOT NULL *)
getColumnDefinition_CarriesNotNull(column, dialect) ==
  LET t == IF column.type = "" THEN "TEXT" ELSE column.type
      sqlType ==
        IF dialect # "sqlite" THEN t
        ELSE CASE t \in {"STRING", "VARCHAR"} -> "TEXT"
               [] t \in {"INTEGER", "INT"} -> "INTEGER"
               [] t \in {"FLOAT", "DOUBLE"} -> "REAL"
               [] t = "BOOLEAN" -> "INTEGER"
               [] t \in {"DATETIME", "TIMESTAMP"} -> "TEXT"
               [] OTHER -> t
  IN [type |-> sqlType,
      defaultValue |-> IF column.defaultValue \in {Undefined, ""} THEN Undefined
                       ELSE column.defaultValue,
      notNull |-> column.notNull]

(* the rendered definition of an added column: type [DEFAULT d]; notNull  *)
(* tells whether the text carries NOT NULL                                *)
getColumnDefinition(column, dialect) ==
  LET t == IF column.type = "" THEN "TEXT" ELSE column.type
      sqlType ==
        IF dialect # "sqlite" THEN t
        ELSE CASE t \in {"STRING", "VARCHAR"} -> "TEXT"
               [] t \in {"INTEGER", "INT"} -> "INTEGER"
               [] t \in {"FLOAT", "DOUBLE"} -> "REAL"
               [] t = "BOOLEAN" -> "INTEGER"
               [] t \in {"DATETIME", "TIMESTAMP"} -> "TEXT"
               [] OTHER -> t
  IN [type |-> sqlType,
      defaultValue |-> IF column.defaultValue \in {Undefined, ""} THEN Undefined
                       ELSE column.defaultValue,
      notNull |-> FALSE]

EscapeQuotes(chars) ==
  Concat([i \in 1..Len(chars) |->
            IF chars[i] = "'" THEN <<"'", "'">> ELSE <<chars[i]>>], Len(chars))

(* lines 197-201: the value as written into the statement *)
EscapeValue(val) ==
  IF val.t = "text" THEN [lit |-> "string", chars |-> EscapeQuotes(val.v)]
  ELSE [lit |-> "raw", v |-> val]

RowGet(row, col) == IF col \in DOMAIN row THEN row[col] ELSE JsUndefined

(* the INSERT of one backed-up row with the null values written out *)
RestoreStatement_KeepsNulls(row, newColumns) ==
  LET Has(col) == RowGet(row, col) # JsUndefined
      kept == SelectSeq(newColumns, Has)
      FirstOnly(i) == \A j \in 1..(i - 1) : kept[j] # kept[i]
      idxs == {i \in 1..Len(kept) : FirstOnly(i)}
      columns == [k \in 1..Cardinality(idxs) |->
                    kept[CHOOSE i \in idxs : Cardinality({j \in idxs : j < i}) = k - 1]]
  IN InsertStmt(columns, [k \in 1..Len(columns) |-> EscapeValue(row[columns[k]])])

(* lines 176-205: the INSERT of one backed-up row *)
RestoreStatement(row, newColumns) ==
  LET Has(col) == RowGet(row, col) \notin {JsUndefined, Null}
      kept == SelectSeq(newColumns, Has)
      FirstOnly(i) == \A j \in 1..(i - 1) : kept[j] # kept[i]
      idxs == {i \in 1..Len(kept) : FirstOnly(i)}
      columns == [k \in 1..Cardinality(idxs) |->
                    kept[CHOOSE i \in idxs : Cardinality({j \in idxs : j < i}) = k - 1]]
  IN InsertStmt(columns, [k \in 1..Len(columns) |-> EscapeValue(row[columns[k]])])

(* the removal check without the approval: allowDrop is not consulted *)
RemovalCheck_IgnoresAllowDrop(columnsToRemove, allowDrop) ==
  IF columnsToRemove = <<>> THEN "done" ELSE "recreate"

(* lines 265-271: what follows the additions *)
RemovalCheck(columnsToRemove, allowDrop) ==
  IF columnsToRemove = <<>> THEN "done"
  ELSE IF ~allowDrop THEN "blocked"
  ELSE "recreate"

NewColumnsOf(inp) == Names(extractTableStructure(inp.schema, inp.options).columns)

IdleMig == [pc |-> "idle", run |-> 0, currentColumns |-> <<>>,
            structure |-> [columns |-> <<>>, primaryKeys |-> <<>>], columnsToAdd |-> <<>>,
            columnsToRemove |-> <<>>, i |-> 1, backupData |-> <<>>, j |-> 1,
            result |-> "none", error |-> <<>>, introspectFailed |-> FALSE, db0 |-> NoTable,
            prevIntrospectFailed |-> FALSE]

Return(m) == [m EXCEPT !.pc = "done", !.result = "returned"]
(* the error is swallowed: the call returns normally *)
Throw_Swallowed(m, err) == [m EXCEPT !.pc = "done", !.result = "returned"]

Throw(m, err) == [m EXCEPT !.pc = "done", !.result = "threw", !.error = err]

(* the position after the additions, with the backup left out: the table *)
(* is dropped first                                                      *)
AfterAdditions_DropsFirst(m) ==
  LET next == RemovalCheck(m.columnsToRemove, input.allowDrop)
  IN CASE next = "done" -> Return(m)
       [] next = "blocked" -> Throw(m, <<"Cannot remove columns">> \o m.columnsToRemove)
       [] OTHER -> [m EXCEPT !.pc = "drop"]

(* the position after the additions: lines 264-298 *)
AfterAdditions(m) ==
  LET next == RemovalCheck(m.columnsToRemove, input.allowDrop)
  IN CASE next = "done" -> Return(m)
       [] next = "blocked" -> Throw(m, <<"Cannot remove columns">> \o m.columnsToRemove)
       [] OTHER -> [m EXCEPT !.pc = "backup"]


(* an introspection whose empty result is not a reason to stop *)
AfterIntrospection_NeverSkips(currentColumns) == "diff"

(* lines 222-225: a table without columns is left alone *)
AfterIntrospection(currentColumns) ==
  IF Len(currentColumns) = 0 THEN "skip" ELSE "diff"

(* a statement as issued: whether it succeeded and the columns the table   *)
(* had when it was executed                                                *)
Issued(stmt, ok) ==
  [stmt |-> stmt, ok |-> ok, present |-> IF db.exists THEN Names(db.cols) ELSE <<>>]

(* migrateTableSchema is called; a later call follows a call that returned. *)
(* db0 keeps the table as the call found it, prevIntrospectFailed whether   *)
(* the call before could not read the table.                                *)
MigrateCall ==
  /\ input.op = "migrate"
  /\ \/ mig.pc = "idle"
     \/ mig.pc = "done" /\ mig.result = "returned" /\ mig.run < MaxRuns
  /\ mig' = [IdleMig EXCEPT !.pc = "introspect", !.run = mig.run + 1, !.db0 = db,
                             !.prevIntrospectFailed = mig.introspectFailed]
  /\ log' = <<>>
  /\ UNCHANGED <<input, out, db, ins>>

(* lines 222-244: the synchronous code between the introspection and the  *)
(* first statement                                                         *)
Diff(m, cur, structure, failed) ==
  LET newColumns == Names(structure.columns)
      NotCurrent(c) == ~Includes(cur, c)
      NotNew(c) == ~Includes(newColumns, c)
      m0 == [m EXCEPT !.currentColumns = cur, !.introspectFailed = failed]
      m1 == [m0 EXCEPT !.structure = structure,
                       !.columnsToAdd = SelectSeq(newColumns, NotCurrent),
                       !.columnsToRemove = SelectSeq(cur, NotNew)]
  IN IF AfterIntrospection(cur) = "skip" THEN Return(m0)
     ELSE IF Len(m1.columnsToAdd) > 0 THEN [m1 EXCEPT !.pc = "add", !.i = 1]
     ELSE AfterAdditions(m1)

(* line 220, getTableColumns, and the code up to the first statement *)
MigrateIntrospect ==
  /\ mig.pc = "introspect"
  /\ \E failed \in BOOLEAN :
       /\ log' = Append(log, Issued(PragmaStmt, ~failed))
       /\ mig' = Diff(mig, getTableColumns(db, failed),
                      extractTableStructure(input.schema, input.options), failed)
  /\ UNCHANGED <<input, out, db, ins>>

(* line 246: structure.columns.find *)
FindColumn(columns, columnName) ==
  columns[CHOOSE k \in 1..Len(columns) :
            /\ columns[k].name = columnName
            /\ \A h \in 1..(k - 1) : columns[h].name # columnName]

(* the statement is executed, a failure being logged and passed over *)
AddColumnStep_IgnoresFailure(stmt, failed) ==
  LET ok == ~failed /\ ExecAlterOk(db, stmt)
      m1 == [mig EXCEPT !.i = mig.i + 1]
  IN /\ log' = Append(log, Issued(stmt, ok))
     /\ db' = IF ok THEN ExecAlter(db, stmt) ELSE db
     /\ mig' = IF mig.i = Len(mig.columnsToAdd) THEN AfterAdditions(m1)
               ELSE m1

(* the statement is executed: it fails when the client fails or the       *)
(* database rejects it                                                     *)
AddColumnStep(stmt, failed) ==
  LET ok == ~failed /\ ExecAlterOk(db, stmt)
      m1 == [mig EXCEPT !.i = mig.i + 1]
  IN /\ log' = Append(log, Issued(stmt, ok))
     /\ db' = IF ok THEN ExecAlter(db, stmt) ELSE db
     /\ mig' = IF ~ok THEN Throw(mig, <<"execute failed">>)
               ELSE IF mig.i = Len(mig.columnsToAdd) THEN AfterAdditions(m1)
               ELSE m1

(* lines 245-261: one ALTER TABLE ADD COLUMN *)
MigrateAddColumn ==
  /\ mig.pc = "add"
  /\ \E failed \in BOOLEAN :
       AddColumnStep(
         AlterStmt(mig.columnsToAdd[mig.i],
                   getColumnDefinition(
                     FindColumn(mig.structure.columns, mig.columnsToAdd[mig.i]),
                     input.options.dialect)),
         failed)
  /\ UNCHANGED <<input, out, ins>>

(* line 276, backupTableData *)
MigrateBackup ==
  /\ mig.pc = "backup"
  /\ \E failed \in BOOLEAN :
       LET stmt == SelectStmt(mig.currentColumns)
           ok == ~failed /\ ExecSelectOk(db, stmt)
       IN /\ log' = Append(log, Issued(stmt, ok))
          /\ mig' = IF ok THEN [mig EXCEPT !.pc = "drop", !.backupData = ExecSelect(db, stmt)]
                    ELSE Throw(mig, <<"execute failed">>)
  /\ UNCHANGED <<input, out, db, ins>>

(* lines 280-282 *)
MigrateDrop ==
  /\ mig.pc = "drop"
  /\ \E failed \in BOOLEAN :
       LET ok == ~failed /\ ExecDropOk(db)
       IN /\ log' = Append(log, Issued(DropStmt, ok))
          /\ db' = IF ok THEN ExecDrop(db) ELSE db
          /\ mig' = IF ok THEN [mig EXCEPT !.pc = "create"]
                    ELSE Throw(mig, <<"execute failed">>)
  /\ UNCHANGED <<input, out, ins>>

CreateStep(stmt, failed) ==
  LET ok == ~failed /\ ExecCreateOk(db, stmt)
  IN /\ log' = Append(log, Issued(stmt, ok))
     /\ db' = IF ok THEN ExecCreate(db, stmt) ELSE db
     /\ mig' = IF ~ok THEN Throw(mig, <<"execute failed">>)
               ELSE IF Len(mig.backupData) = 0 THEN Return(mig)
               ELSE [mig EXCEPT !.pc = "restore", !.j = 1]

(* lines 285-287, and restoreTableData's line 174 *)
MigrateCreate ==
  /\ mig.pc = "create"
  /\ \E failed \in BOOLEAN :
       CreateStep(CreateStmt(createTableDDL(input.schema, input.options)), failed)
  /\ UNCHANGED <<input, out, ins>>

RestoreStep(stmt, failed) ==
  LET ok == ~failed /\ ExecInsertOk(db, stmt)
      m1 == [mig EXCEPT !.j = mig.j + 1]
  IN /\ log' = Append(log, Issued(stmt, ok))
     /\ db' = IF ok THEN ExecInsert(db, stmt) ELSE db
     /\ mig' = IF ~ok THEN Throw(mig, <<"execute failed">>)
               ELSE IF mig.j = Len(mig.backupData) THEN Return(m1)
               ELSE m1

(* restoreTableData, lines 176-206: the INSERT of one row *)
MigrateRestoreRow ==
  /\ mig.pc = "restore"
  /\ \E failed \in BOOLEAN :
       RestoreStep(RestoreStatement(mig.backupData[mig.j], Names(mig.structure.columns)),
                   failed)
  /\ UNCHANGED <<input, out, ins>>

(***************************************************************************)
(* zod-turso inserter: flattening of a record and insertSingle             *)
(***************************************************************************)
Bool(b) == [t |-> "boolean", v |-> b]
JsDate == [t |-> "date"]
JsArray == [t |-> "array"]
JsObject(entries) == [t |-> "object", entries |-> entries]
Entry(key, value) == [key |-> key, value |-> value]
JsonString(value) == [t |-> "json", of |-> value]
Generated(what) == [t |-> "generated", of |-> what]

(* typeof value === 'object': null, arrays and dates included *)
TypeofObject(value) == value.t \in {"null", "object", "array", "date"}
Truthy(value) ==
  CASE value.t \in {"undefined", "null"} -> FALSE
    [] value.t = "text" -> value.v # <<>>
    [] value.t = "number" -> value.v # 0
    [] value.t = "boolean" -> value.v
    [] OTHER -> TRUE

(* data[key] *)
Lookup(data, key) ==
  IF data.t = "object" /\ \E i \in 1..Len(data.entries) : data.entries[i].key = key
  THEN data.entries[CHOOSE i \in 1..Len(data.entries) : data.entries[i].key = key].value
  ELSE JsUndefined

(* flatData[key] = value: a new key goes last, a known key keeps its place *)
Put(flat, key, value) ==
  IF \E i \in 1..Len(flat) : flat[i].key = key
  THEN [i \in 1..Len(flat) |-> IF flat[i].key = key THEN Entry(key, value) ELSE flat[i]]
  ELSE Append(flat, Entry(key, value))

Keys(flat) == [i \in 1..Len(flat) |-> flat[i].key]

RECURSIVE processNestedObjectForData(_, _, _, _)
RECURSIVE NestedEntriesForData(_, _, _, _, _)
NestedEntriesForData(prefix, entries, k, flatData, depth) ==
  IF k > Len(entries) THEN flatData
  ELSE LET value == entries[k].value
           colName == prefix \o "_" \o entries[k].key
           next ==
             IF Truthy(value) /\ TypeofObject(value) /\ value.t # "array"
             THEN processNestedObjectForData(colName, value, flatData, depth - 1)
             ELSE Put(flatData, colName,
                      IF value.t = "array" \/ TypeofObject(value)
                      THEN JsonString(value) ELSE value)
       IN NestedEntriesForData(prefix, entries, k + 1, next, depth)

processNestedObjectForData(prefix, data, flatData, depth) ==
  IF depth <= 0 \/ ~Truthy(data) \/ ~TypeofObject(data) \/ data.t = "array"
  THEN Put(flatData, prefix, IF TypeofObject(data) THEN JsonString(data) ELSE data)
  ELSE NestedEntriesForData(prefix, IF data.t = "object" THEN data.entries ELSE <<>>,
                            1, flatData, depth)

RECURSIVE FlattenFields(_, _, _, _, _)
FlattenFields(data, shape, k, flatData, flattenDepth) ==
  IF k > Len(shape) THEN flatData
  ELSE LET key == shape[k].key
           value == Lookup(data, key)
           next ==
             IF shouldFlattenType(shape[k].type, flattenDepth) /\ Truthy(value)
                /\ TypeofObject(value)
             THEN processNestedObjectForData(key, value, flatData, flattenDepth)
             ELSE Put(flatData, key,
                      IF value.t = "array" \/ (TypeofObject(value) /\ value # Null)
                      THEN JsonString(value) ELSE value)
       IN FlattenFields(data, shape, k + 1, next, flattenDepth)

flattenDataToObject(data, schema, options) ==
  FlattenFields(data, schema.shape, 1, <<>>, options.flattenDepth)

RECURSIVE ExtraDefaultsForInsert(_, _, _)
ExtraDefaultsForInsert(result, extraColumns, k) ==
  IF k > Len(extraColumns) THEN result
  ELSE LET column == extraColumns[k]
           present == \E i \in 1..Len(result) : result[i].key = column.name
           next == IF column.defaultValue \notin {Undefined, ""} /\ ~present
                   THEN Put(result, column.name, Text(<<column.defaultValue>>))
                   ELSE result
       IN ExtraDefaultsForInsert(next, extraColumns, k + 1)

processExtraColumnsForInsert(data, extraColumns) ==
  ExtraDefaultsForInsert(data, extraColumns, 1)

RECURSIVE ExplicitExtraValues(_, _, _)
ExplicitExtraValues(result, extraColumns, k) ==
  IF k > Len(extraColumns) THEN result
  ELSE LET column == extraColumns[k]
           next == IF column.defaultValue # Undefined
                   THEN Put(result, column.name, Text(<<column.defaultValue>>))
                   ELSE result
       IN ExplicitExtraValues(next, extraColumns, k + 1)

flattenForInsert(data, schema, options) ==
  LET flatData == flattenDataToObject(data, schema, options)
      autoIdTruthy == ~(options.autoId.kind = "bool" /\ ~options.autoId.value)
      autoIdConfig == IF autoIdTruthy THEN generateAutoIdConfig(options.autoId)
                      ELSE [isNull |-> TRUE]
      withId ==
        IF ~autoIdConfig.isNull /\ autoIdConfig.type = "uuid"
        THEN Put(flatData, IF autoIdConfig.name = "" THEN "id" ELSE autoIdConfig.name,
                 Generated("uuid"))
        ELSE flatData
      withTimestamps ==
        IF options.timestamps
        THEN Put(Put(withId, "created_at", Generated("now")), "updated_at", Generated("now"))
        ELSE withId
      processedData == processExtraColumnsForInsert(withTimestamps, options.extraColumns)
  IN ExplicitExtraValues(processedData, options.extraColumns, 1)

(* the statement, or none when there is nothing to insert (line 15) *)
prepareInsertQuery(data) ==
  [threw |-> Len(data) = 0,
   stmt |-> InsertStmt(Keys(data), [i \in 1..Len(data) |-> [lit |-> "raw", v |-> data[i].value]])]

tursoGetTableColumns(dbv, failed) == IF failed THEN <<>> ELSE ExecPragma(dbv)

RECURSIVE tursoGetColumnDefinition(_)
tursoGetColumnDefinition(zodType) ==
  IF zodType.k \in {"ZodOptional", "ZodNullable", "ZodDefault"}
  THEN tursoGetColumnDefinition(zodType.innerType)
  ELSE [type |-> CASE zodType.k = "ZodString" -> "TEXT"
                   [] zodType.k = "ZodNumber" -> "REAL"
                   [] zodType.k = "ZodBoolean" -> "INTEGER"
                   [] zodType.k = "ZodDate" -> "TEXT"
                   [] OTHER -> "TEXT",
        defaultValue |-> Undefined,
        notNull |-> FALSE]

(* Object.keys(schema.shape) *)
ShapeKeys(schema) == [i \in 1..Len(schema.shape) |-> schema.shape[i].key]

IdleIns == [pc |-> "idle", currentColumns |-> <<>>, columnsToAdd |-> <<>>, i |-> 1,
            result |-> "none", introspectFailed |-> FALSE]

Succeed(s) == [s EXCEPT !.pc = "done", !.result = "success"]
(* the catch block left out: the error leaves the call *)
Fail_Rethrows(s) == [s EXCEPT !.pc = "done", !.result = "threw"]

(* the catch block: the call resolves with success false and the message *)
Fail(s) == [s EXCEPT !.pc = "done", !.result = "failure"]

(* insertSingle is called: factory.ts lines 87-91 *)
InsertCall ==
  /\ input.op = "insert"
  /\ ins.pc = "idle"
  /\ ins' = [ins EXCEPT !.pc = IF input.migrate THEN "introspect" ELSE "execute"]
  /\ UNCHANGED <<input, out, db, mig, log>>

(* migrateTable, lines 129-143 *)
InsertIntrospect ==
  /\ ins.pc = "introspect"
  /\ \E failed \in BOOLEAN :
       LET cur == tursoGetTableColumns(db, failed)
           schemaColumns == ShapeKeys(input.schema)
           NotCurrent(c) == ~Includes(cur, c)
           toAdd == SelectSeq(schemaColumns, NotCurrent)
       IN /\ log' = Append(log, Issued(PragmaStmt, ~failed))
          /\ ins' = [ins EXCEPT !.currentColumns = cur,
                                !.columnsToAdd = toAdd,
                                !.introspectFailed = failed,
                                !.i = 1,
                                !.pc = IF Len(cur) = 0 \/ Len(toAdd) = 0
                                       THEN "execute" ELSE "add"]
  /\ UNCHANGED <<input, out, db, mig>>

InsertAddColumnStep(stmt, failed) ==
  LET ok == ~failed /\ ExecAlterOk(db, stmt)
  IN /\ log' = Append(log, Issued(stmt, ok))
     /\ db' = IF ok THEN ExecAlter(db, stmt) ELSE db
     /\ ins' = IF ~ok THEN Fail(ins)
               ELSE [ins EXCEPT !.i = ins.i + 1,
                                !.pc = IF ins.i = Len(ins.columnsToAdd)
                                       THEN "execute" ELSE "add"]

(* schema.shape[column] *)
ShapeType(schema, column) ==
  schema.shape[CHOOSE k \in 1..Len(schema.shape) : schema.shape[k].key = column].type

(* migrateTable, lines 146-159; the error is caught at factory.ts line 115 *)
InsertAddColumn ==
  /\ ins.pc = "add"
  /\ \E failed \in BOOLEAN :
       InsertAddColumnStep(
         AlterStmt(ins.columnsToAdd[ins.i],
                   tursoGetColumnDefinition(ShapeType(input.schema, ins.columnsToAdd[ins.i]))),
         failed)
  /\ UNCHANGED <<input, out, mig>>

(* data[key] of a row that is null or undefined throws *)
FlattenThrows(data) == data.t \in {"null", "undefined"}

ExecuteStep(query, failed) ==
  LET ok == ~failed /\ ExecInsertOk(db, query.stmt)
  IN IF query.threw
     THEN /\ ins' = Fail(ins)
          /\ UNCHANGED <<db, log>>
     ELSE /\ log' = Append(log, Issued(query.stmt, ok))
          /\ db' = IF ok THEN ExecInsert(db, query.stmt) ELSE db
          /\ ins' = IF ok THEN Succeed(ins) ELSE Fail(ins)

(* factory.ts lines 94-120 *)
InsertExecute ==
  /\ input.op = "insert"
  /\ ins.pc = "execute"
  /\ \E failed \in BOOLEAN :
       ExecuteStep(IF FlattenThrows(input.data)
                   THEN [threw |-> TRUE, stmt |-> InsertStmt(<<>>, <<>>)]
                   ELSE prepareInsertQuery(flattenForInsert(input.data, input.schema,
                                                            input.options)),
                   failed)
  /\ UNCHANGED <<input, out, mig>>

(***************************************************************************)
(* Inputs of the database operations                                       *)
(***************************************************************************)
MigrateSchemas ==
  {ZObject(<<Field("a", ZString), Field("p", ZObject(<<Field("b", ZInt)>>))>>),
   ZObject(<<Field("a", ZString),
             Field("p", ZOptional(ZNullable(ZObject(<<Field("b", ZInt)>>))))>>),
   ZObject(<<Field("a", ZString), Field("d", ZDate), Field("f", ZOptional(ZBoolean))>>)}

MigrateOptions ==
  {Options(d, NoPrimaryKey, <<>>, FALSE, AutoIdBool(FALSE), 2) : d \in {"sqlite", "postgres"}}
  \cup
  {Options("sqlite", NoPrimaryKey, ex, ts, ai, 2) :
     <<ex, ts, ai>> \in
       {<<>>, <<ExtraColumn("kind", "TEXT", "undefined", "'x'", FALSE, "start")>>}
       \X BOOLEAN
       \X {AutoIdBool(FALSE), AutoIdBool(TRUE), AutoIdConfig(FALSE, "", "uuid")}}

MigrateInputs ==
  {[op |-> "migrate", schema |-> s, options |-> o, allowDrop |-> a,
    migrate |-> FALSE, data |-> JsUndefined] :
     <<s, o, a>> \in MigrateSchemas \X MigrateOptions \X BOOLEAN}

(* a record that conforms to the type, every field present *)
RECURSIVE FullData(_)
FullData(type) ==
  CASE IsWrapper(type) -> FullData(type.innerType)
    [] type.k = "ZodObject" ->
         JsObject([i \in 1..Len(type.shape) |->
                     Entry(type.shape[i].key, FullData(type.shape[i].type))])
    [] type.k = "ZodString" -> Text(<<"s">>)
    [] type.k = "ZodNumber" -> Num(1)
    [] type.k = "ZodBoolean" -> Bool(TRUE)
    [] type.k = "ZodDate" -> JsDate
    [] type.k = "ZodArray" -> JsArray
    [] OTHER -> Text(<<"e">>)

InsertSchemas ==
  {ZObject(<<Field("id", ZString), Field("name", ZString),
             Field("email", ZOptional(ZString))>>),
   ZObject(<<Field("id", ZString),
             Field("p", ZObject(<<Field("b", ZInt),
                                  Field("c", ZObject(<<Field("d", ZString)>>))>>))>>)}

InsertOptions ==
  {Options("sqlite", NoPrimaryKey, ex, ts, ai, fd) :
     <<ex, ts, ai, fd>> \in
       {<<>>, <<ExtraColumn("kind", "TEXT", "undefined", "'x'", FALSE, "start")>>}
       \X BOOLEAN
       \X {AutoIdBool(FALSE), AutoIdBool(TRUE), AutoIdConfig(TRUE, "", "uuid")}
       \X {0, 2}}

InsertInputs ==
  {[op |-> "insert", schema |-> s, options |-> o, allowDrop |-> FALSE,
    migrate |-> m, data |-> FullData(s)] :
     <<s, o, m>> \in InsertSchemas \X InsertOptions \X BOOLEAN}

DbInputs == MigrateInputs \cup InsertInputs

(* the live table before the call *)
RowValues == {"text", "null", "mixed"}
Row(pattern, n) ==
  [i \in 1..n |->
     CASE pattern = "text" -> Text(<<"o", "'", "k">>)
       [] pattern = "null" -> Null
       [] OTHER -> IF i = 1 THEN Null ELSE IF i = 2 THEN Num(7) ELSE Text(<<"v">>)]

RowLists(n) ==
  {[r \in 1..k |-> Row(ps[r], n)] : <<k, ps>> \in
     UNION {{<<k, ps>> : ps \in [1..k -> RowValues]} : k \in 0..MaxRows}}

Dedup(s) ==
  LET First(i) == \A j \in 1..(i - 1) : s[j] # s[i]
      idxs == {i \in 1..Len(s) : First(i)}
  IN [k \in 1..Cardinality(idxs) |->
        s[CHOOSE i \in idxs : Cardinality({j \in idxs : j < i}) = k - 1]]

PlainTable(names, rows) ==
  [exists |-> TRUE,
   cols |-> [i \in 1..Len(names) |-> TableColumn(names[i], FALSE, Undefined, FALSE)],
   rows |-> rows]

ColumnLists(derived, ddl, keys) ==
  {derived, Append(derived, "old"), <<derived[1]>>, <<derived[1], "old">>,
   Append(ddl, "old"), keys}

LiveColumnLists(inp) ==
  ColumnLists(Dedup(IF inp.op = "migrate" THEN NewColumnsOf(inp)
                    ELSE Keys(flattenForInsert(inp.data, inp.schema, inp.options))),
              Dedup(Names(createTableDDL(inp.schema, inp.options).cols)),
              ShapeKeys(inp.schema))

LiveTables(inp) ==
  {NoTable}
  \cup {PlainTable(names, rows) :
          <<names, rows>> \in
            UNION {{<<names, rows>> :
                      rows \in IF inp.op = "migrate" THEN RowLists(Len(names)) ELSE {<<>>}} :
                     names \in LiveColumnLists(inp)}}

InitDb ==
  /\ input \in DbInputs
  /\ db \in LiveTables(input)
  /\ mig = IdleMig
  /\ ins = IdleIns
  /\ log = <<>>
  /\ out = NoOut

NextDb ==
  \/ MigrateCall
  \/ MigrateIntrospect
  \/ MigrateAddColumn
  \/ MigrateBackup
  \/ MigrateDrop
  \/ MigrateCreate
  \/ MigrateRestoreRow
  \/ InsertCall
  \/ InsertIntrospect
  \/ InsertAddColumn
  \/ InsertExecute

SpecDb == InitDb /\ [][NextDb]_vars

(***************************************************************************)
(* Properties of the derivation                                            *)
(***************************************************************************)
Derived == out.hasStructure /\ out.hasDDL
StructureNames == Names(out.structure.columns)
DDLNames == Names(out.ddl.cols)

RECURSIVE FullyUnwrapped(_)
FullyUnwrapped(t) == IF IsWrapper(t) THEN FullyUnwrapped(t.innerType) ELSE t

RECURSIVE WrapperCount(_)
WrapperCount(t) == IF IsWrapper(t) THEN 1 + WrapperCount(t.innerType) ELSE 0

(* every object field of the schema is a bare object or an object under one *)
(* Optional or one Nullable layer                                          *)
RECURSIVE PlainObjects(_)
PlainObjects(obj) ==
  \A i \in 1..Len(obj.shape) :
    LET t == obj.shape[i].type
        u == FullyUnwrapped(t)
    IN u.k = "ZodObject" =>
         /\ WrapperCount(t) <= 1
         /\ t.k # "ZodDefault"
         /\ PlainObjects(u)

(* the columns of a field by nesting level: an object field at level <= N  *)
(* gives the columns of its children, an object field at level N + 1 one   *)
(* JSON column                                                             *)
RECURSIVE LevelColumns(_, _, _, _)
LevelColumns(path, type, level, N) ==
  LET u == FullyUnwrapped(type)
  IN IF u.k # "ZodObject" THEN <<[name |-> path, json |-> FALSE]>>
     ELSE IF level > N THEN <<[name |-> path, json |-> TRUE]>>
     ELSE Concat([i \in 1..Len(u.shape) |->
                    LevelColumns(path \o "_" \o u.shape[i].key, u.shape[i].type, level + 1, N)],
                 Len(u.shape))

ExpectedSchemaColumns(schema, N) ==
  Concat([i \in 1..Len(schema.shape) |->
            LevelColumns(schema.shape[i].key, schema.shape[i].type, 1, N)],
         Len(schema.shape))

JsonType(dialect) ==
  CASE dialect = "postgres" -> "JSONB" [] dialect = "mysql" -> "JSON" [] OTHER -> "TEXT"

NestingOf(schema) ==
  LET RECURSIVE D(_)
      D(t) == LET u == FullyUnwrapped(t)
              IN IF u.k # "ZodObject" THEN 0
                 ELSE 1 + LET ds == {D(u.shape[i].type) : i \in 1..Len(u.shape)}
                          IN CHOOSE m \in ds : \A x \in ds : x <= m
  IN D(schema) - 1

IsFlattenInput == input \in FlattenInputs /\ PlainObjects(input.schema)

AutoIdEnabled(autoId) ==
  IF autoId.kind = "bool" THEN autoId.value ELSE autoId.enabled

AutoIdName(autoId) ==
  IF autoId.kind = "bool" \/ autoId.name = "" THEN "id" ELSE autoId.name

ExpectedHead(options) ==
  LET IsStart(c) == c.position = "start"
  IN (IF AutoIdEnabled(options.autoId) THEN <<AutoIdName(options.autoId)>> ELSE <<>>)
     \o (IF options.timestamps THEN <<"created_at", "updated_at">> ELSE <<>>)
     \o Names(SelectSeq(options.extraColumns, IsStart))

ExpectedTail(options) ==
  LET IsEnd(c) == c.position # "start"
  IN Names(SelectSeq(options.extraColumns, IsEnd))

ExpectedOrder ==
  ExpectedHead(input.options)
  \o Names(ExpectedSchemaColumns(input.schema, input.options.flattenDepth))
  \o ExpectedTail(input.options)

(* C9: the derived column list is [auto ID if enabled, created_at and        *)
(* updated_at if enabled, start extras in caller order, schema columns in   *)
(* declaration order, end and unspecified extras in caller order], in the   *)
(* TableStructure and in the CREATE TABLE statement                         *)
C9_ColumnOrder ==
  PlainObjects(input.schema) =>
    /\ out.hasStructure => StructureNames = ExpectedOrder
    /\ out.hasDDL => DDLNames = ExpectedOrder

RECURSIVE HasOptionalOrNullable(_)
HasOptionalOrNullable(t) ==
  /\ IsWrapper(t)
  /\ \/ t.k \in {"ZodOptional", "ZodNullable"}
     \/ HasOptionalOrNullable(t.innerType)

IsPrimitiveInput ==
  /\ input \in TypeInputs
  /\ input.options.dialect \in Dialects
  /\ FullyUnwrapped(input.schema.shape[1].type).k # "ZodArray"

(* C10: in each dialect the column of a primitive field is nullable (no NOT  *)
(* NULL in the statement, notNull = FALSE in the TableStructure) exactly     *)
(* when the field is wrapped in Optional or in Nullable                      *)
C10_Nullability ==
  IsPrimitiveInput =>
    LET nullable == HasOptionalOrNullable(input.schema.shape[1].type)
    IN /\ out.hasDDL => out.ddl.cols[1].notNull = ~nullable
       /\ out.hasStructure => out.structure.columns[1].notNull = ~nullable

(* C10 on the CREATE TABLE statement alone, for fields with at most one     *)
(* Optional or Nullable layer                                               *)
C10_DDLSingleWrapper ==
  (IsPrimitiveInput /\ out.hasDDL
     /\ input.schema.shape[1].type.k # "ZodDefault"
     /\ WrapperCount(input.schema.shape[1].type) <= 1) =>
    out.ddl.cols[1].notNull = ~HasOptionalOrNullable(input.schema.shape[1].type)

(* C10 on the TableStructure: the column is nullable exactly when the       *)
(* outermost layer of the field is Optional                                 *)
C10_StructureOutermostOptional ==
  (IsPrimitiveInput /\ out.hasStructure) =>
    out.structure.columns[1].notNull = (input.schema.shape[1].type.k # "ZodOptional")

(***************************************************************************)
(* Properties of the migration and of the inserter                         *)
(***************************************************************************)
Migrating == input.op = "migrate" /\ mig.pc # "idle"
Inserting == input.op = "insert" /\ ins.pc # "idle"
LogOps == [i \in 1..Len(log) |-> log[i].stmt.op]
Mutating == {"ALTER", "DROP", "CREATE", "INSERT"}

(* the table as the running call found it, and the columns derived from the *)
(* schema and the options                                                   *)
LiveAtCall == IF mig.db0.exists THEN Names(mig.db0.cols) ELSE <<>>
DerivedColumnNames == NewColumnsOf(input)
Removable ==
  LET derived == DerivedColumnNames
      NotDerived(c) == ~Includes(derived, c)
  IN SelectSeq(LiveAtCall, NotDerived)

(* C1: a migrate call on a table with a column outside the derived set and  *)
(* allowDrop unset issues no mutating statement (no ALTER, DROP, CREATE or  *)
(* INSERT), also when derived columns are missing from the table, and ends  *)
(* with the error that names the columns to remove, the table's columns     *)
(* being those it had before                                                *)
C1_BlockedRemovalIssuesNoMutation ==
  (Migrating /\ ~input.allowDrop /\ Len(Removable) > 0) =>
    /\ \A i \in 1..Len(log) : LogOps[i] \notin Mutating
    /\ db.exists /\ Names(db.cols) = LiveAtCall
    /\ (mig.pc = "done" /\ ~mig.introspectFailed) =>
         /\ mig.result = "threw"
         /\ mig.error = <<"Cannot remove columns">> \o Removable

(* what holds of C1: when no derived column is missing from the table, the *)
(* blocked call issues the introspection and nothing else                  *)
C1_WhenNothingToAdd ==
  (Migrating /\ ~input.allowDrop /\ Len(Removable) > 0
     /\ \A k \in 1..Len(DerivedColumnNames) : Includes(LiveAtCall, DerivedColumnNames[k])) =>
    /\ \A i \in 1..Len(log) : LogOps[i] = "PRAGMA"
    /\ db = mig.db0
    /\ (mig.pc = "done" /\ ~mig.introspectFailed) =>
         /\ mig.result = "threw"
         /\ mig.error = <<"Cannot remove columns">> \o Removable

(* C3: a DROP TABLE is issued only by a migrate call with allowDrop set    *)
(* that read a table with a column outside the derived set; no other run   *)
(* (allowDrop unset, nothing to remove, table missing, introspection       *)
(* failed) issues one                                                      *)
C3_DropOnlyWhenAllowedAndNeeded ==
  (\E i \in 1..Len(log) : LogOps[i] = "DROP") =>
    /\ Migrating /\ input.allowDrop
    /\ ~mig.introspectFailed /\ mig.db0.exists
    /\ Len(Removable) > 0

C3_Witness ==
  /\ Migrating /\ input.allowDrop /\ Len(Removable) > 0
  /\ Len(log) > 0 /\ log[Len(log)].stmt.op = "DROP" /\ log[Len(log)].ok
  /\ ~db.exists

(* C5: when the introspection yields no column, because the table is       *)
(* missing or because the statement failed, migrate returns without error  *)
(* having issued the introspection and nothing else                        *)
C5_NoColumnsNoAction ==
  (Migrating /\ mig.pc # "introspect" /\ Len(mig.currentColumns) = 0) =>
    /\ mig.pc = "done" /\ mig.result = "returned"
    /\ LogOps = <<"PRAGMA">>
    /\ db = mig.db0

C5_Witness ==
  /\ Migrating /\ mig.pc = "done" /\ mig.result = "returned"
  /\ mig.introspectFailed /\ mig.db0.exists /\ Len(mig.db0.rows) > 0
  /\ Len(mig.currentColumns) = 0
  /\ LogOps = <<"PRAGMA">>

(* C6: no ALTER TABLE ADD COLUMN issued by a migration, of migrate or of   *)
(* the inserter, carries NOT NULL, whatever the nullability of the field   *)
C6_AddColumnNeverNotNull ==
  \A i \in 1..Len(log) : LogOps[i] = "ALTER" => ~log[i].stmt.def.notNull

C6_Witness ==
  /\ Migrating
  /\ \E i \in 1..Len(log) :
       /\ LogOps[i] = "ALTER" /\ log[i].ok
       /\ FindColumn(mig.structure.columns, log[i].stmt.name).notNull
       /\ FindColumn(mig.structure.columns, log[i].stmt.name).primaryKey
       /\ Includes(Names(db.cols), log[i].stmt.name)
  /\ \E i \in 1..Len(log) :
       /\ LogOps[i] = "ALTER" /\ log[i].ok
       /\ FindColumn(mig.structure.columns, log[i].stmt.name).notNull
       /\ ~FindColumn(mig.structure.columns, log[i].stmt.name).primaryKey

(* the value of column c in row r of a table *)
ValueAt(dbv, r, c) ==
  dbv.rows[r][CHOOSE i \in 1..Len(dbv.cols) : dbv.cols[i].name = c]

(* a call that saw the table, had columns to remove and returned *)
RecreateCompleted ==
  /\ Migrating /\ mig.pc = "done" /\ mig.result = "returned"
  /\ ~mig.introspectFailed
  /\ input.allowDrop /\ Len(Removable) > 0

(* C2: when a migrate call with allowDrop that had columns to remove        *)
(* returns without error, the table has exactly the derived columns, as     *)
(* many rows as before, and every row keeps its value in every column that  *)
(* the old and the new table share                                          *)
C2_RecreatePreservesData ==
  RecreateCompleted =>
    /\ db.exists
    /\ Range(Names(db.cols)) = Range(DerivedColumnNames)
    /\ Len(db.rows) = Len(mig.db0.rows)
    /\ \A r \in 1..Len(mig.db0.rows) :
         \A c \in Range(LiveAtCall) \cap Range(Names(db.cols)) :
           ValueAt(db, r, c) = ValueAt(mig.db0, r, c)

(* C4: the migrate call that immediately follows a call that returned      *)
(* without error, with the same schema and options, issues no ALTER TABLE   *)
C4_SecondMigrateIssuesNoAlter ==
  (Migrating /\ mig.run >= 2 /\ ~mig.prevIntrospectFailed) =>
    \A i \in 1..Len(log) : LogOps[i] # "ALTER"

(* what holds of C2 when the CREATE TABLE statement and the TableStructure  *)
(* name the same columns: the columns and the row count are as claimed, and *)
(* every value that was not NULL is kept                                    *)
C2_WhenNamesAgree ==
  (RecreateCompleted
     /\ Names(createTableDDL(input.schema, input.options).cols) = DerivedColumnNames) =>
    /\ db.exists
    /\ Range(Names(db.cols)) = Range(DerivedColumnNames)
    /\ Len(db.rows) = Len(mig.db0.rows)
    /\ \A r \in 1..Len(mig.db0.rows) :
         \A c \in Range(LiveAtCall) \cap Range(Names(db.cols)) :
           ValueAt(mig.db0, r, c) # Null => ValueAt(db, r, c) = ValueAt(mig.db0, r, c)

(* C7: in an insert with migrate on an existing table, every column that   *)
(* the INSERT names (flattened nested fields, the auto-ID, the timestamps  *)
(* and the extra columns included) is in the table when the INSERT is      *)
(* executed                                                                *)
C7_InsertColumnsExist ==
  (Inserting /\ input.migrate /\ ~ins.introspectFailed) =>
    \A i \in 1..Len(log) :
      (LogOps[i] = "INSERT" /\ Len(log[1].present) > 0) =>
        \A k \in 1..Len(log[i].stmt.cols) : Includes(log[i].present, log[i].stmt.cols[k])

(* what holds of C7: the top-level keys of the schema are in the table     *)
C7_TopLevelKeysExist ==
  (Inserting /\ input.migrate /\ ~ins.introspectFailed) =>
    \A i \in 1..Len(log) :
      (LogOps[i] = "INSERT" /\ Len(log[1].present) > 0) =>
        \A k \in 1..Len(input.schema.shape) :
          Includes(log[i].present, input.schema.shape[k].key)

(***************************************************************************)
(* Properties of the derivation: types, names and primary keys             *)
(***************************************************************************)
TypesOf(cols) == [i \in 1..Len(cols) |-> cols[i].type]

TypeTable(dialect) ==
  CASE dialect = "sqlite" -> <<"INTEGER", "REAL", "TEXT", "BOOLEAN", "TEXT">>
    [] dialect = "postgres" -> <<"INTEGER", "DOUBLE PRECISION", "TEXT", "BOOLEAN", "JSONB">>
    [] OTHER -> <<"INT", "DOUBLE", "TEXT", "BOOLEAN", "JSON">>

(* C11: for the schema {n: integer, f: number, s: string, b: boolean,      *)
(* arr: array of string} the column types are, per dialect, those of the   *)
(* type table, in the CREATE TABLE statement and in the TableStructure     *)
C11_TypeTable ==
  (input.schema = TypeTableSchema) =>
    /\ out.hasDDL => TypesOf(out.ddl.cols) = TypeTable(input.options.dialect)
    /\ out.hasStructure =>
         TypesOf(out.structure.columns) = TypeTable(input.options.dialect)

(* what holds of C11: the types of the CREATE TABLE statement *)
C11_StatementTypeTable ==
  (input.schema = TypeTableSchema /\ out.hasDDL) =>
    TypesOf(out.ddl.cols) = TypeTable(input.options.dialect)

(* C12: no two columns of the derived column list have the same name, the *)
(* auto-ID column, the timestamp columns, the extra columns and the        *)
(* flattened schema columns counted together                               *)
C12_UniqueColumnNames ==
  /\ out.hasStructure => ~HasDuplicates(StructureNames)
  /\ out.hasDDL => ~HasDuplicates(DDLNames)

(* the primary key declarations of a statement: inline PRIMARY KEY markers *)
(* and table-level PRIMARY KEY (...) constraints                           *)
InlinePrimaryKeys(ddl) == {i \in 1..Len(ddl.cols) : ddl.cols[i].primaryKey}
PrimaryKeyDeclarations(ddl) == Cardinality(InlinePrimaryKeys(ddl)) + Len(ddl.constraints)

(* C13: the CREATE TABLE statement declares at most one primary key *)
C13_AtMostOnePrimaryKey ==
  out.hasDDL => PrimaryKeyDeclarations(out.ddl) <= 1

(* what holds of C13: an options.primaryKey that names a column which      *)
(* extraColumns marks as primary key adds no declaration                   *)
C13_ExtraColumnKeyNotRepeated ==
  (/\ out.hasDDL
   /\ input.options.primaryKey.kind # "none"
   /\ \A k \in 1..Len(input.options.primaryKey.names) :
        \E i \in 1..Len(input.options.extraColumns) :
          /\ input.options.extraColumns[i].primaryKey
          /\ input.options.extraColumns[i].name = input.options.primaryKey.names[k]) =>
    /\ Len(out.ddl.constraints) = 0
    /\ \A i \in InlinePrimaryKeys(out.ddl) :
         \/ out.ddl.cols[i].name \in Range(input.options.primaryKey.names)
         \/ out.ddl.cols[i].name = AutoIdName(input.options.autoId)

(* C14: the statement has a table-level compound PRIMARY KEY (...)         *)
(* constraint exactly when options.primaryKey is a list and no column is   *)
(* individually declared primary key (no enabled auto-ID column, no extra  *)
(* column with primaryKey set); the constraint lists the given columns     *)
C14_CompoundKeyExactlyWhenNeeded ==
  out.hasDDL =>
    LET singleKey ==
          \/ AutoIdEnabled(input.options.autoId)
          \/ \E i \in 1..Len(input.options.extraColumns) :
               input.options.extraColumns[i].primaryKey
        expected == input.options.primaryKey.kind = "list" /\ ~singleKey
    IN /\ expected => out.ddl.constraints = <<input.options.primaryKey.names>>
       /\ ~expected => out.ddl.constraints = <<>>

(***************************************************************************)
(* Flattening of data rows: flattenForInsert applied next to the two       *)
(* derivations of the same schema and options                              *)
(***************************************************************************)
(* the values that conform to a type; an absent field is JsUndefined *)
RECURSIVE ConformingValues(_)
RECURSIVE ConformingEntries(_, _)
ConformingEntries(shape, k) ==
  IF k > Len(shape) THEN {<<>>}
  ELSE {IF v = JsUndefined THEN r ELSE <<Entry(shape[k].key, v)>> \o r :
          <<v, r>> \in ConformingValues(shape[k].type) \X ConformingEntries(shape, k + 1)}

ConformingValues(type) ==
  CASE type.k \in {"ZodOptional", "ZodDefault"} ->
         {JsUndefined} \cup ConformingValues(type.innerType)
    [] type.k = "ZodNullable" -> {Null} \cup ConformingValues(type.innerType)
    [] type.k = "ZodObject" -> {JsObject(e) : e \in ConformingEntries(type.shape, 1)}
    [] OTHER -> {FullData(type)}

FlatSchemas ==
  {ZObject(<<Field("id", ZString),
             Field("p", ZOptional(ZObject(<<Field("b", ZInt),
                                            Field("c", ZObject(<<Field("d", ZString)>>))>>))),
             Field("tags", ZArray)>>),
   ZObject(<<Field("id", ZString),
             Field("p", ZObject(<<Field("b", ZNullable(ZInt)),
                                  Field("c", ZObject(<<Field("d",
                                     ZObject(<<Field("e", ZString)>>))>>))>>)),
             Field("n", ZNullable(ZObject(<<Field("v", ZString)>>)))>>),
   ZObject(<<Field("id", ZString), Field("name", ZOptional(ZString)),
             Field("p", ZObject(<<Field("b", ZInt), Field("tags", ZArray)>>))>>)}

FlatOptions ==
  {Options("sqlite", NoPrimaryKey, <<>>, g[1], g[2], fd) :
     <<g, fd>> \in
       {<<FALSE, AutoIdBool(FALSE)>>, <<TRUE, AutoIdConfig(TRUE, "", "uuid")>>}
       \X (0..MaxNest)}

FlatInputs ==
  UNION {{[schema |-> s, options |-> o, data |-> d] : d \in ConformingValues(s)} :
           <<s, o>> \in FlatSchemas \X FlatOptions}

InitFlat ==
  /\ input \in FlatInputs
  /\ out = NoOut
  /\ db = Idle /\ mig = Idle /\ log = <<>> /\ ins = Idle

FlattenRow ==
  /\ ~out.hasFlat
  /\ out' = [out EXCEPT !.hasFlat = TRUE,
                        !.flat = flattenForInsert(input.data, input.schema, input.options)]
  /\ UNCHANGED <<input, db, mig, log, ins>>

NextFlat == DeriveStructure \/ GenerateDDL \/ FlattenRow

SpecFlat == InitFlat /\ [][NextFlat]_vars

(***************************************************************************)
(* Properties of the flattening of data rows                               *)
(***************************************************************************)
FlatKeys == Keys(out.flat)

(* C15: for every schema, flattenDepth and conforming data row (optional   *)
(* fields and optional nested objects absent or null included), every key  *)
(* of the flattened map is the name of a column derived from the same      *)
(* schema and flattenDepth, and no array or object value is left           *)
(* unencoded in the map                                                    *)
C15_FlatKeysAreColumns ==
  (out.hasFlat /\ out.hasStructure /\ out.hasDDL) =>
    /\ \A i \in 1..Len(FlatKeys) :
         Includes(StructureNames, FlatKeys[i]) \/ Includes(DDLNames, FlatKeys[i])
    /\ \A i \in 1..Len(out.flat) : out.flat[i].value.t \notin {"array", "object"}

(* what holds of C15: no array or object value is left unencoded *)
C15_CollapsedValuesAreJson ==
  out.hasFlat => \A i \in 1..Len(out.flat) : out.flat[i].value.t \notin {"array", "object"}

(***************************************************************************)
(* zod-turso batch insert: insertBatch (inserter/batch.ts) and             *)
(* processBatch (helpers/batch-processor.ts)                               *)
(***************************************************************************)
MaxQueries == 3
MaxLoops == 2

Min(a, b) == IF a < b THEN a ELSE b
Max(a, b) == IF a > b THEN a ELSE b

(* Array.prototype.slice(start, end): the positions, counted from 0, that *)
(* the slice of an array of len elements holds                            *)
SliceIndex(k, len) == IF k < 0 THEN Max(len + k, 0) ELSE Min(k, len)
Slice(len, start, end) ==
  LET from == SliceIndex(start, len)
      to == SliceIndex(end, len)
  IN [k \in 1..Max(to - from, 0) |-> from + k - 1]

BatchItemResult(index, success) == [index |-> index, success |-> success]
BatchInsertResult(success, inserted, failed, errors) ==
  [success |-> success, inserted |-> inserted, failed |-> failed, errors |-> errors]
NoResult == BatchInsertResult(FALSE, 0, 0, 0)

IdleBatch ==
  [pc |-> "idle", currentColumns |-> <<>>, columnsToAdd |-> <<>>, i |-> 1,
   result |-> "none", introspectFailed |-> FALSE,
   queries |-> <<>>, batchI |-> 0, chunk |-> <<>>, chunkI |-> 0, chunkResults |-> <<>>,
   results |-> <<>>, totalInserted |-> 0, totalFailed |-> 0, ret |-> NoResult]

(* the promise resolves with a result *)
Resolve(s, ret) == [s EXCEPT !.pc = "done", !.result = "returned", !.ret = ret]

(* a statement of the batch as issued, with the position of its query *)
IssuedAt(stmt, ok, position) ==
  [stmt |-> stmt, ok |-> ok, present |-> IF db.exists THEN Names(db.cols) ELSE <<>>,
   position |-> position]

(* insertBatch is called: batch.ts lines 21-34 *)
BatchCall ==
  /\ input.op = "insertMany"
  /\ ins.pc = "idle"
  /\ ins' = IF Len(input.rows) = 0
            THEN Resolve(ins, BatchInsertResult(TRUE, 0, 0, 0))
            ELSE [ins EXCEPT !.pc = IF input.migrate THEN "introspect" ELSE "execute"]
  /\ UNCHANGED <<input, out, db, mig, log>>

PrepareStep(queries, threw) ==
  ins' = IF threw \/ \E k \in 1..Len(queries) : queries[k].threw
         THEN Fail(ins)
         ELSE [ins EXCEPT !.pc = "chunk", !.queries = queries, !.batchI = 0]

(* batch.ts lines 37-45 and batch-processor.ts lines 17-21 *)
BatchPrepare ==
  /\ input.op = "insertMany"
  /\ ins.pc = "execute"
  /\ PrepareStep([k \in 1..Len(input.rows) |->
                    prepareInsertQuery(flattenForInsert(input.rows[k], input.schema,
                                                        input.options))],
                 \E k \in 1..Len(input.rows) : FlattenThrows(input.rows[k]))
  /\ UNCHANGED <<input, out, db, mig, log>>

(* batch-processor.ts lines 45-51 *)
BatchReturn(s) ==
  Resolve(s, BatchInsertResult(s.totalFailed = 0, s.totalInserted, s.totalFailed,
                               Len(SelectSeq(s.results, LAMBDA r : ~r.success))))

(* whether the loop over a chunk goes on after a query: lines 90-92, with *)
(* all queries continuing                                                 *)
ChunkContinues_Always(ok, continueOnError) == TRUE

(* whether the loop over a chunk goes on after a query: lines 90-92 *)
ChunkContinues(ok, continueOnError) == ok \/ continueOnError

(* batch-processor.ts lines 28-42: the chunk's results are in, the counts *)
(* are taken and the loop over the chunks goes on or stops                *)
AfterChunk(s, chunkResults) ==
  LET failures == Len(SelectSeq(chunkResults, LAMBDA r : ~r.success))
      s1 == [s EXCEPT !.results = s.results \o chunkResults,
                      !.totalInserted = s.totalInserted + Len(chunkResults) - failures,
                      !.totalFailed = s.totalFailed + failures,
                      !.chunk = <<>>, !.chunkI = 0, !.chunkResults = <<>>]
  IN IF ~input.continueOnError /\ failures > 0 THEN BatchReturn(s1)
     ELSE [s1 EXCEPT !.pc = "chunk", !.batchI = s.batchI + input.batchSize]

(* batch-processor.ts lines 24-26: the head of the loop over the chunks *)
BatchChunk ==
  /\ ins.pc = "chunk"
  /\ ins.batchI > 0 - MaxLoops
  /\ ins' = IF ins.batchI < Len(ins.queries)
            THEN LET chunk == Slice(Len(ins.queries), ins.batchI,
                                    ins.batchI + input.batchSize)
                 IN IF Len(chunk) = 0 THEN AfterChunk(ins, <<>>)
                    ELSE [ins EXCEPT !.pc = "query", !.chunk = chunk, !.chunkI = 0,
                                     !.chunkResults = <<>>]
            ELSE BatchReturn(ins)
  /\ UNCHANGED <<input, out, db, mig, log>>

QueryStep(position, stmt, failed) ==
  LET ok == ~failed /\ ExecInsertOk(db, stmt)
      chunkResults == Append(ins.chunkResults,
                             BatchItemResult(ins.batchI + ins.chunkI, ok))
  IN /\ log' = Append(log, IssuedAt(stmt, ok, position))
     /\ db' = IF ok THEN ExecInsert(db, stmt) ELSE db
     /\ ins' = IF ChunkContinues(ok, input.continueOnError)
                  /\ ins.chunkI + 1 < Len(ins.chunk)
               THEN [ins EXCEPT !.chunkI = ins.chunkI + 1, !.chunkResults = chunkResults]
               ELSE AfterChunk(ins, chunkResults)

(* processBatchChunk, lines 65-93: one query of the chunk is executed *)
BatchQuery ==
  /\ ins.pc = "query"
  /\ \E failed \in BOOLEAN :
       QueryStep(ins.chunk[ins.chunkI + 1],
                 ins.queries[ins.chunk[ins.chunkI + 1] + 1].stmt, failed)
  /\ UNCHANGED <<input, out, mig>>

(* the value insertBatch resolves to: batch.ts lines 47-57 *)
insertBatchResult(s) ==
  IF s.result = "failure"
  THEN BatchInsertResult(FALSE, 0, Len(input.rows), 1)
  ELSE s.ret

BatchSchema == ZObject(<<Field("id", ZString), Field("name", ZOptional(ZString))>>)

BatchRows ==
  UNION {[1..n -> {FullData(BatchSchema), Null}] : n \in 0..MaxQueries}

BatchSizes == {0 - 1, 0, 1, 2}

BatchInputs ==
  {[op |-> "insertMany", schema |-> BatchSchema,
    options |-> DefaultOptions("sqlite", 2), allowDrop |-> FALSE,
    migrate |-> m, rows |-> rs, batchSize |-> bs, continueOnError |-> c] :
     <<m, rs, bs, c>> \in BOOLEAN \X BatchRows \X BatchSizes \X BOOLEAN}

SingleInputs ==
  {[op |-> "insert", schema |-> BatchSchema,
    options |-> DefaultOptions("sqlite", 2), allowDrop |-> FALSE,
    migrate |-> m, data |-> d] :
     <<m, d>> \in BOOLEAN \X {FullData(BatchSchema), Null}}

BatchTables ==
  {NoTable, PlainTable(<<"id", "name">>, <<>>), PlainTable(<<"id">>, <<>>)}

InitBatch ==
  /\ input \in BatchInputs \cup SingleInputs
  /\ db \in BatchTables
  /\ mig = IdleMig
  /\ ins = IdleBatch
  /\ log = <<>>
  /\ out = NoOut

NextBatch ==
  \/ InsertCall
  \/ InsertIntrospect
  \/ InsertAddColumn
  \/ InsertExecute
  \/ BatchCall
  \/ BatchPrepare
  \/ BatchChunk
  \/ BatchQuery

SpecBatch == InitBatch /\ [][NextBatch]_vars

(***************************************************************************)
(* Properties of the batch insert                                          *)
(***************************************************************************)
Batching == input.op = "insertMany"
Executed == SelectSeq(log, LAMBDA e : e.stmt.op = "INSERT")
BatchReturned == ins.pc = "done" /\ ins.result = "returned" /\ Len(ins.queries) > 0

(* C16: processBatch executes the queries in input order, each at most     *)
(* once (the k-th execution is that of the k-th query); with               *)
(* continueOnError false no query is executed after a failed one, in the   *)
(* same chunk or a later one; with continueOnError true every query has    *)
(* been executed exactly once when processBatch returns                    *)
C16_BatchOrder ==
  Batching =>
    /\ \A k \in 1..Len(Executed) : Executed[k].position = k - 1
    /\ ~input.continueOnError => \A k \in 1..(Len(Executed) - 1) : Executed[k].ok
    /\ (input.continueOnError /\ BatchReturned) => Len(Executed) = Len(ins.queries)

(* a failure in the second chunk of three with continueOnError false: the *)
(* third query is never executed                                          *)
C16_Witness ==
  /\ Batching /\ BatchReturned
  /\ ~input.continueOnError /\ input.batchSize = 1
  /\ Len(ins.queries) = 3 /\ Len(Executed) = 2
  /\ Executed[1].ok /\ ~Executed[2].ok

StatementFailed == \E k \in 1..Len(log) : log[k].stmt.op # "PRAGMA" /\ ~log[k].ok
RowThrows ==
  IF Batching THEN \E k \in 1..Len(input.rows) : FlattenThrows(input.rows[k])
  ELSE FlattenThrows(input.data)

C18_UnsupportedDialectFails ==
  (input.options.dialect \notin Dialects) => ~out.hasDDL /\ ~out.hasStructure

(* C19: when options.primaryKey names only columns that are neither       *)
(* derived from the schema nor extra columns, the statement and the        *)
(* structure (columns and primaryKeys) are those obtained without          *)
(* primaryKey, and every name in primaryKeys is the name of a column       *)
C19_MissingPrimaryKeyIsNoOp ==
  LET pk == input.options.primaryKey
      without == [input.options EXCEPT !.primaryKey = NoPrimaryKey]
      Absent(names) == \A k \in 1..Len(pk.names) : ~Includes(names, pk.names[k])
  IN pk.kind # "none" =>
       /\ (out.hasStructure /\ Absent(StructureNames)) =>
            /\ out.structure = extractTableStructure(input.schema, without)
            /\ \A k \in 1..Len(out.structure.primaryKeys) :
                 Includes(StructureNames, out.structure.primaryKeys[k])
       /\ (out.hasDDL /\ Absent(DDLNames)) =>
            out.ddl = createTableDDL(input.schema, without)

(* what holds of C19: the columns of the structure, and the statement for *)
(* a single missing name, are those obtained without primaryKey           *)
C19_ColumnsUnchanged ==
  LET pk == input.options.primaryKey
      without == [input.options EXCEPT !.primaryKey = NoPrimaryKey]
      Absent(names) == \A k \in 1..Len(pk.names) : ~Includes(names, pk.names[k])
  IN pk.kind # "none" =>
       /\ (out.hasStructure /\ Absent(StructureNames)) =>
            out.structure.columns = extractTableStructure(input.schema, without).columns
       /\ (out.hasDDL /\ Absent(DDLNames)) =>
            out.ddl.cols = createTableDDL(input.schema, without).cols

(***************************************************************************)
(* Properties of the order of the migration statements                     *)
(***************************************************************************)
(* the statements that may come directly before a statement *)
Predecessors(op) ==
  CASE op = "PRAGMA" -> {}
    [] op = "ALTER" -> {"PRAGMA", "ALTER"}
    [] op = "SELECT" -> {"PRAGMA", "ALTER"}
    [] op = "DROP" -> {"SELECT"}
    [] op = "CREATE" -> {"DROP"}
    [] OTHER -> {"CREATE", "INSERT"}

(* C20: in every run of migrate the statements are issued one after the   *)
(* other in the order introspection, ALTER TABLE ADD COLUMN statements,    *)
(* backup SELECT, DROP TABLE, CREATE TABLE, restore INSERTs; a statement   *)
(* is issued only after the one before it has completed, and DROP TABLE    *)
(* only after the backup SELECT has returned all the rows                  *)
C20_StatementOrder ==
  Migrating =>
    /\ \A i \in 1..Len(log) :
         IF i = 1 THEN LogOps[i] = "PRAGMA"
         ELSE LogOps[i - 1] \in Predecessors(LogOps[i]) /\ log[i - 1].ok
    /\ (\E i \in 1..Len(log) : LogOps[i] = "DROP") =>
         Len(mig.backupData) = Len(mig.db0.rows)

(* a run that added a column and recreated the table with a row restored *)
C20_Witness ==
  /\ Migrating /\ mig.pc = "done" /\ mig.result = "returned"
  /\ \A op \in {"PRAGMA", "ALTER", "SELECT", "DROP", "CREATE", "INSERT"} :
       \E i \in 1..Len(log) : LogOps[i] = op

(***************************************************************************)
(* Properties of the failures of the migration                             *)
(***************************************************************************)
OkInserts == Cardinality({i \in 1..Len(log) : LogOps[i] = "INSERT" /\ log[i].ok})
FailedAfterDrop ==
  {i \in 1..Len(log) : LogOps[i] \in {"CREATE", "INSERT"} /\ ~log[i].ok}

(* C21: when the CREATE TABLE or a restore INSERT fails after the DROP,    *)
(* migrate stops at that statement with the error propagated, no further   *)
(* and no compensating statement is issued, the rows restored before the   *)
(* failure stay in the new table and the other rows are not restored       *)
C21_FailureAfterDropStops ==
  Migrating =>
    \A i \in FailedAfterDrop :
      /\ i = Len(log)
      /\ mig.pc = "done" /\ mig.result = "threw"
      /\ LogOps[i] = "CREATE" => ~db.exists
      /\ LogOps[i] = "INSERT" =>
           /\ db.exists /\ Len(db.rows) = OkInserts
           /\ OkInserts = mig.j - 1 /\ OkInserts < Len(mig.backupData)

(* the second restore INSERT failed: one row restored, one row lost *)
C21_Witness ==
  /\ Migrating /\ mig.pc = "done" /\ mig.result = "threw"
  /\ Len(mig.backupData) = 2 /\ OkInserts = 1 /\ Len(db.rows) = 1
  /\ LogOps[Len(log)] = "INSERT" /\ ~log[Len(log)].ok

FailedAlters == {i \in 1..Len(log) : LogOps[i] = "ALTER" /\ ~log[i].ok}
AddedBefore(i) == {log[k].stmt.name : k \in {k \in 1..(i - 1) : LogOps[k] = "ALTER"}}

(* C22: when the i-th ALTER TABLE ADD COLUMN of a run fails, the error is  *)
(* propagated, no later ALTER TABLE and no statement of the removal or     *)
(* recreate path is issued, and the i-1 columns added before stay in the   *)
(* table                                                                   *)
C22_AlterFailureStops ==
  \A i \in FailedAlters :
    /\ i = Len(log)
    /\ Migrating => mig.pc = "done" /\ mig.result = "threw"
    /\ Inserting => ins.pc = "done" /\ ins.result = "failure"
    /\ db.exists /\ \A c \in AddedBefore(i) : Includes(Names(db.cols), c)

(* the second ALTER TABLE of a migrate run failed after the first added *)
(* its column                                                           *)
C22_Witness ==
  /\ Migrating /\ mig.pc = "done" /\ mig.result = "threw"
  /\ Len(log) = 3 /\ LogOps[2] = "ALTER" /\ log[2].ok
  /\ LogOps[3] = "ALTER" /\ ~log[3].ok
  /\ Includes(Names(db.cols), log[2].stmt.name)
  /\ Len(mig.columnsToRemove) > 0

(***************************************************************************)
(* Properties of the restore step                                          *)
(***************************************************************************)
RestoreInserts == SelectSeq(log, LAMBDA e : e.stmt.op = "INSERT")
HeldColumns(row) ==
  {c \in Range(Names(mig.structure.columns)) : RowGet(row, c) \notin {JsUndefined, Null}}

(* C23: in the restore step one INSERT is issued per backed-up row, in     *)
(* backup order: the k-th INSERT names exactly the derived columns for     *)
(* which the k-th row holds a defined, non-null value, each once and with  *)
(* that value (no column at all standing for INSERT ... DEFAULT VALUES),   *)
(* and a restore that ran to its end issued as many INSERTs as there are   *)
(* backed-up rows                                                          *)
C23_OneInsertPerRow ==
  Migrating =>
    /\ Len(RestoreInserts) <= Len(mig.backupData)
    /\ \A k \in 1..Len(RestoreInserts) :
         LET stmt == RestoreInserts[k].stmt
             row == mig.backupData[k]
         IN /\ Range(stmt.cols) = HeldColumns(row)
            /\ ~HasDuplicates(stmt.cols)
            /\ \A n \in 1..Len(stmt.cols) : stmt.values[n] = EscapeValue(row[stmt.cols[n]])
    /\ (mig.pc = "done" /\ mig.result = "returned"
        /\ \E i \in 1..Len(log) : LogOps[i] = "CREATE") =>
         Len(RestoreInserts) = Len(mig.backupData)

(* two rows restored, the second with INSERT ... DEFAULT VALUES *)
C23_Witness ==
  /\ Migrating /\ mig.pc = "done"
  /\ Len(mig.backupData) = 2 /\ Len(RestoreInserts) = 2
  /\ RestoreInserts[1].stmt.cols # <<>>
  /\ HeldColumns(mig.backupData[1]) # Range(Names(mig.structure.columns))
  /\ RestoreInserts[2].stmt.cols = <<>>

(***************************************************************************)
(* Properties relating the structure and the statement                     *)
(***************************************************************************)
(* C24: for every schema and options the ordered list of the column names *)
(* of the TableStructure equals that of the CREATE TABLE statement        *)
C24_StructureNamesAreDDLNames ==
  Derived => StructureNames = DDLNames

(* what holds of C24: the lists agree for a non-nested schema without     *)
(* auto-ID, timestamps and extra columns                                  *)
C24_PlainSchemaNamesAgree ==
  (Derived /\ input \in TypeInputs \cup TypeTableInputs) => StructureNames = DDLNames

(***************************************************************************)
(* Two concurrent inserts with migrate on one table: the steps of           *)
(* insertSingle and migrateTable, one call per process, the awaits being   *)
(* the points where the other call can run. The client does not fail by    *)
(* itself here: a statement fails only when the database rejects it.       *)
(***************************************************************************)
Procs == {1, 2}

ConcSchemas ==
  {ZObject(<<Field("id", ZString), Field("name", ZOptional(ZString))>>),
   ZObject(<<Field("id", ZString), Field("name", ZString), Field("age", ZNumber)>>)}

ConcInputs ==
  {[op |-> "insert", schema |-> s, options |-> DefaultOptions("sqlite", 2),
    allowDrop |-> FALSE, migrate |-> m, data |-> FullData(s)] :
     <<s, m>> \in ConcSchemas \X BOOLEAN}

ConcTables ==
  {PlainTable(<<"id">>, <<>>), PlainTable(<<"name">>, <<>>), PlainTable(<<"id", "name">>, <<>>)}

InitConc ==
  /\ input \in ConcInputs
  /\ db \in ConcTables
  /\ mig = IdleMig
  /\ ins = [p \in Procs |-> IdleIns]
  /\ log = <<>>
  /\ out = NoOut

(* factory.ts lines 87-91 *)
ConcCall(p) ==
  /\ ins[p].pc = "idle"
  /\ ins' = [ins EXCEPT ![p].pc = IF input.migrate THEN "introspect" ELSE "execute"]
  /\ UNCHANGED <<input, out, db, mig, log>>

(* migrateTable, lines 129-143 *)
ConcIntrospect(p) ==
  /\ ins[p].pc = "introspect"
  /\ LET cur == tursoGetTableColumns(db, FALSE)
         schemaColumns == ShapeKeys(input.schema)
         NotCurrent(c) == ~Includes(cur, c)
         toAdd == SelectSeq(schemaColumns, NotCurrent)
     IN /\ log' = Append(log, Issued(PragmaStmt, TRUE))
        /\ ins' = [ins EXCEPT ![p].currentColumns = cur,
                              ![p].columnsToAdd = toAdd,
                              ![p].i = 1,
                              ![p].pc = IF Len(cur) = 0 \/ Len(toAdd) = 0
                                        THEN "execute" ELSE "add"]
  /\ UNCHANGED <<input, out, db, mig>>

ConcAddColumnStep(p, stmt) ==
  LET ok == ExecAlterOk(db, stmt)
  IN /\ log' = Append(log, Issued(stmt, ok))
     /\ db' = IF ok THEN ExecAlter(db, stmt) ELSE db
     /\ ins' = [ins EXCEPT ![p] = IF ~ok THEN Fail(ins[p])
                                  ELSE [ins[p] EXCEPT !.i = ins[p].i + 1,
                                                      !.pc = IF ins[p].i = Len(ins[p].columnsToAdd)
                                                             THEN "execute" ELSE "add"]]

(* migrateTable, lines 146-159; the error is caught at factory.ts line 115 *)
ConcAddColumn(p) ==
  /\ ins[p].pc = "add"
  /\ ConcAddColumnStep(p,
       AlterStmt(ins[p].columnsToAdd[ins[p].i],
                 tursoGetColumnDefinition(ShapeType(input.schema,
                                                    ins[p].columnsToAdd[ins[p].i]))))
  /\ UNCHANGED <<input, out, mig>>

ConcExecuteStep(p, query) ==
  LET ok == ExecInsertOk(db, query.stmt)
  IN /\ log' = Append(log, Issued(query.stmt, ok))
     /\ db' = IF ok THEN ExecInsert(db, query.stmt) ELSE db
     /\ ins' = [ins EXCEPT ![p] = IF ok THEN Succeed(ins[p]) ELSE Fail(ins[p])]

(* factory.ts lines 94-120 *)
ConcExecute(p) ==
  /\ ins[p].pc = "execute"
  /\ ConcExecuteStep(p, prepareInsertQuery(flattenForInsert(input.data, input.schema,
                                                            input.options)))
  /\ UNCHANGED <<input, out, mig>>

NextConc ==
  \E p \in Procs :
    \/ ConcCall(p)
    \/ ConcIntrospect(p)
    \/ ConcAddColumn(p)
    \/ ConcExecute(p)

SpecConc == InitConc /\ [][NextConc]_vars

(***************************************************************************)
(* Properties of concurrent inserts                                        *)
(***************************************************************************)
BothDone == \A p \in Procs : ins[p].pc = "done"
AltersOf(c) == {i \in 1..Len(log) : LogOps[i] = "ALTER" /\ log[i].stmt.name = c}

(* C25: when two inserts with migrate run concurrently on an existing      *)
(* table that lacks a schema column, every interleaving ends with each     *)
(* missing column added by exactly one ALTER TABLE, no ALTER TABLE         *)
(* failing and both calls reporting success                                *)
C25_ConcurrentInsertsSucceed ==
  (input.migrate /\ BothDone) =>
    /\ \A i \in 1..Len(log) : LogOps[i] = "ALTER" => log[i].ok
    /\ \A p \in Procs : \A k \in 1..Len(ins[p].columnsToAdd) :
         Cardinality(AltersOf(ins[p].columnsToAdd[k])) = 1
    /\ \A p \in Procs : ins[p].result = "success"

(* what holds of C25: the table ends with every schema column present     *)
(* once, whichever call added it                                          *)
C25_ColumnsPresentOnce ==
  (input.migrate /\ BothDone) =>
    /\ ~HasDuplicates(Names(db.cols))
    /\ \A p \in Procs : ins[p].result = "success" =>
         \A k \in 1..Len(input.schema.shape) :
           Includes(Names(db.cols), input.schema.shape[k].key)

(***************************************************************************)
(* Properties of wrapped fields                                            *)
(***************************************************************************)
(* the schema with the wrappers of its object fields removed *)
RECURSIVE BareObjects(_)
BareObjects(t) ==
  LET u == FullyUnwrapped(t)
  IN IF u.k = "ZodObject"
     THEN ZObject([i \in 1..Len(u.shape) |->
                     Field(u.shape[i].key, BareObjects(u.shape[i].type))])
     ELSE t

NamesAndTypes(cols) == [i \in 1..Len(cols) |-> <<cols[i].name, cols[i].type>>]
WithinDepth ==
  input \in FlattenInputs /\ input.options.flattenDepth >= NestingOf(input.schema)
     /\ input.options.flattenDepth > 0

(* C26: an object field under any stack of Optional, Nullable and Default *)
(* wrappers is, while depth > 0, flattened into the column names and      *)
(* types of the bare object, in the statement and in the structure        *)
C26_WrappersDoNotChangeColumns ==
  WithinDepth =>
    /\ out.hasDDL =>
         NamesAndTypes(out.ddl.cols)
           = NamesAndTypes(createTableDDL(BareObjects(input.schema), input.options).cols)
    /\ out.hasStructure =>
         NamesAndTypes(out.structure.columns)
           = NamesAndTypes(extractTableStructure(BareObjects(input.schema),
                                                 input.options).columns)

(* what holds of C26: one Optional or one Nullable layer changes nothing *)
C26_SingleLayerDoesNotChangeColumns ==
  (WithinDepth /\ PlainObjects(input.schema)) =>
    /\ out.hasDDL =>
         NamesAndTypes(out.ddl.cols)
           = NamesAndTypes(createTableDDL(BareObjects(input.schema), input.options).cols)
    /\ out.hasStructure =>
         NamesAndTypes(out.structure.columns)
           = NamesAndTypes(extractTableStructure(BareObjects(input.schema),
                                                 input.options).columns)

DefaultOnlyInput ==
  /\ input \in TypeInputs
  /\ input.schema.shape[1].type.k = "ZodDefault"
  /\ ~IsWrapper(input.schema.shape[1].type.innerType)
InnerSchema == ZObject(<<Field("f", input.schema.shape[1].type.innerType)>>)

(* C27: a field wrapped only in Default is, in every dialect, a NOT NULL  *)
(* column whose SQL type is that of the wrapped inner type                *)
C27_DefaultOnlyIsNotNull ==
  DefaultOnlyInput =>
    /\ out.hasDDL =>
         /\ out.ddl.cols[1].notNull
         /\ out.ddl.cols[1].type = createTableDDL(InnerSchema, input.options).cols[1].type
    /\ out.hasStructure =>
         /\ out.structure.columns[1].notNull
         /\ out.structure.columns[1].type
              = extractTableStructure(InnerSchema, input.options).columns[1].type

(* what holds of C27: the structure has the inner type and no nullability *)
C27_StructureDefaultOnly ==
  (DefaultOnlyInput /\ out.hasStructure) =>
    /\ out.structure.columns[1].notNull
    /\ out.structure.columns[1].type
         = extractTableStructure(InnerSchema, input.options).columns[1].type

(* the object fields emitted as one JSON column, with whether the field is *)
(* wrapped: the fields at level N + 1 of the level rule                    *)
RECURSIVE CollapsedFields(_, _, _, _)
CollapsedFields(path, type, level, N) ==
  LET u == FullyUnwrapped(type)
  IN IF u.k # "ZodObject" THEN <<>>
     ELSE IF level > N THEN <<[name |-> path, wrapped |-> IsWrapper(type), level |-> level]>>
     ELSE Concat([i \in 1..Len(u.shape) |->
                    CollapsedFields(path \o "_" \o u.shape[i].key, u.shape[i].type,
                                    level + 1, N)],
                 Len(u.shape))

JsonColumns ==
  Concat([i \in 1..Len(input.schema.shape) |->
            CollapsedFields(input.schema.shape[i].key, input.schema.shape[i].type, 1,
                            input.options.flattenDepth)],
         Len(input.schema.shape))

ColumnNamed(cols, name) == cols[CHOOSE i \in 1..Len(cols) : cols[i].name = name]

(* C28: an object field emitted as a single JSON column because the depth *)
(* is exhausted is nullable exactly when the field is wrapped in Optional *)
(* or Nullable, at the top level and at the depth limit                   *)
C28_JsonColumnNullability ==
  IsFlattenInput =>
    \A k \in 1..Len(JsonColumns) :
      /\ out.hasDDL =>
           ColumnNamed(out.ddl.cols, JsonColumns[k].name).notNull = ~JsonColumns[k].wrapped
      /\ out.hasStructure =>
           ColumnNamed(out.structure.columns, JsonColumns[k].name).notNull
             = ~JsonColumns[k].wrapped

(* what holds of C28: the rule holds in the statement for top-level      *)
(* fields (flattenDepth 0)                                                *)
C28_TopLevelStatement ==
  (IsFlattenInput /\ out.hasDDL) =>
    \A k \in 1..Len(JsonColumns) :
      JsonColumns[k].level = 1 =>
        ColumnNamed(out.ddl.cols, JsonColumns[k].name).notNull = ~JsonColumns[k].wrapped

(***************************************************************************)
(* Properties of the result of the batch insert                            *)
(***************************************************************************)
BatchEnded == Batching /\ ins.pc = "done"

(* C29: the result of insertMany has success true exactly when failed is  *)
(* 0, one error per failed row, inserted + failed equal to the number of  *)
(* rows whose INSERT was attempted and, with continueOnError, to the      *)
(* number of input rows; an empty input gives success with inserted =     *)
(* failed = 0 and no statement executed                                   *)
C29_BatchResultCounts ==
  BatchEnded =>
    LET r == insertBatchResult(ins)
    IN /\ r.success <=> r.failed = 0
       /\ r.errors = r.failed
       /\ r.inserted + r.failed = Len(Executed)
       /\ input.continueOnError => r.inserted + r.failed = Len(input.rows)
       /\ Len(input.rows) = 0 =>
            r.success /\ r.inserted = 0 /\ r.failed = 0 /\ log = <<>>

(* what holds of C29: the counts are right whenever processBatch was      *)
(* reached and returned                                                   *)
C29_CountsWhenProcessBatchReturns ==
  (BatchEnded /\ ins.result = "returned") =>
    LET r == insertBatchResult(ins)
    IN /\ r.success <=> r.failed = 0
       /\ r.errors = r.failed
       /\ r.inserted + r.failed = Len(Executed)
       /\ input.continueOnError => r.inserted + r.failed = Len(input.rows)
       /\ Len(input.rows) = 0 =>
            r.success /\ r.inserted = 0 /\ r.failed = 0 /\ log = <<>>

(***************************************************************************)
(* Termination of processBatch                                             *)
(*                                                                         *)
(* Every client.execute call returns or throws, and the continuation of    *)
(* an awaited call is always run: a step that is possible is eventually    *)
(* taken.                                                                  *)
(***************************************************************************)
SpecBatchLive == InitBatch /\ [][NextBatch]_vars /\ WF_vars(NextBatch)

InProcessBatch == Batching /\ ins.pc \in {"chunk", "query"}

(* C30: processBatch returns a result after finitely many steps for every *)
(* finite list of queries and every numeric batchSize, 0 and negative     *)
(* values included                                                        *)
C30_ProcessBatchReturns == InProcessBatch ~> (ins.pc = "done")

(* what holds of C30: processBatch returns for every batchSize of at      *)
(* least 1                                                                *)
C30_ReturnsForPositiveBatchSize ==
  (InProcessBatch /\ input.batchSize >= 1) ~> (ins.pc = "done")

(* the head of the loop with batchSize 0 and a query left: the chunk is   *)
(* empty and i stays where it is, so the next turn of the loop starts in  *)
(* the same state                                                         *)
C30_LoopStandsStill ==
  /\ Batching /\ ins.pc = "chunk" /\ input.batchSize = 0
  /\ ins.batchI < Len(ins.queries)
  /\ AfterChunk(ins, <<>>) = ins

====
